---- MODULE Spec2Model ----
(***************************************************************************)
(* Product catalogue and cart service (NestJS / TypeORM / Redis).          *)
(*                                                                         *)
(* Every HTTP request is a process in a slot of `req`; each `await` of a   *)
(* handler is one atomic step, so requests interleave exactly at the       *)
(* points where the code suspends.  The products and cart_items tables    *)
(* and the Redis key space are functions whose domain is the set of rows   *)
(* (keys) that exist.                                                      *)
(*                                                                         *)
(* Units: prices are whole cents, discount percentages are hundredths of   *)
(* a percent, cart quantities are counted in 1/QScale of a unit so that a  *)
(* fractional request such as 1.5 is representable.                        *)
(***************************************************************************)
EXTENDS Integers, Sequences, FiniteSets, TLC

VARIABLES
  products,   \* products table: id -> row
  cartItems,  \* cart_items table: line id -> row
  cache,      \* Redis key space: key -> [value, ttl]
  connected,  \* RedisService.client.isOpen
  redisErrors,\* commands sent to Redis may be rejected (server error, timeout)
  quantityCheck, \* the deployed CartService.addToCart starts with the quantity check
  now,        \* wall clock: what `new Date()` returns
  blobs,      \* S3 bucket: the locators of the objects that exist
  req,        \* request slot -> the handler's position and locals
  clock,      \* number of product rows inserted so far
  lineClock,  \* number of cart rows inserted so far
  started,    \* number of requests accepted so far
  ackedUpdate,\* history: products whose last mutation is an acknowledged update
  ackedCreate,\* history: a create was acknowledged and no product write began since
  totalAdded, \* history: product id -> sum of the quantities of successful adds
  overlapped, \* history: two requests have been in flight at the same time
  call        \* the arithmetic utility being evaluated: function, operands, result

vars == <<products, cartItems, cache, connected, redisErrors, quantityCheck, now, blobs, req, clock, lineClock,
          started,
          ackedUpdate, ackedCreate, totalAdded, overlapped, call>>

----------------------------------------------------------------------------
(* Bounds and domains                                                      *)

MaxCacheRequests == 3
MaxCartRequests == 3
MaxRequests == 2
QScale == 2

Reqs == {1, 2}
ProductIdSeq == <<"p1", "p2", "p3">>
LineIdSeq == <<"l1", "l2", "l3">>
UnknownId == "p9"
ProductIds == {ProductIdSeq[i] : i \in 1..Len(ProductIdSeq)}
LineIds == {LineIdSeq[i] : i \in 1..Len(LineIdSeq)}

\* undefined: an optional DTO field that is absent, an entity property never set
Undefined == -1

\* null: a nullable column without a value
Null == -2

\* program constants
CACHE_TTL == 300
PRODUCT_ROUTE_TTL == 600
LIST_ROUTE_TTL == 300
DefaultPage == 1
DefaultLimit == 10
FullPercent == 10000

----------------------------------------------------------------------------
(* Product entity and its priced projection                                *)

NoProduct ==
  [id |-> "-", price |-> 0, stock_quantity |-> 0, image_url |-> Null,
   discount_percentage |-> Null, discount_start_date |-> Null,
   discount_end_date |-> Null, created_at |-> 0]

\* JavaScript truthiness of a nullable number
Truthy(n) == n \notin {Undefined, Null, 0}

\* !date: a Date object is always truthy, null and undefined are not
NoDate(d) == d \in {Undefined, Null}

\* Number(x.toFixed(2)) of the exact quotient n / d, in cents
RoundDiv(n, d) == (2 * n + d) \div (2 * d)

\* Product.isDiscountActive with the end of the window excluded
isDiscountActiveExclusive(p) ==
  IF ~Truthy(p.discount_percentage) \/ p.discount_percentage <= 0
  THEN FALSE
  ELSE LET startValid == NoDate(p.discount_start_date) \/ p.discount_start_date <= now
           endValid == NoDate(p.discount_end_date) \/ p.discount_end_date > now
       IN startValid /\ endValid

\* Product.isDiscountActive
isDiscountActive(p) ==
  IF ~Truthy(p.discount_percentage) \/ p.discount_percentage <= 0
  THEN FALSE
  ELSE LET startValid == NoDate(p.discount_start_date) \/ p.discount_start_date <= now
           endValid == NoDate(p.discount_end_date) \/ p.discount_end_date >= now
       IN startValid /\ endValid

\* Product.effectivePrice
effectivePrice(p) ==
  IF isDiscountActive(p)
  THEN RoundDiv(p.price * (FullPercent - p.discount_percentage), FullPercent)
  ELSE p.price

\* Product.discountAmount rounded from the percentage instead of taken as
\* the difference to effectivePrice
discountAmountOfPercentage(p) ==
  IF isDiscountActive(p) THEN RoundDiv(p.price * p.discount_percentage, FullPercent) ELSE 0

\* Product.discountAmount
discountAmount(p) ==
  IF isDiscountActive(p) THEN p.price - effectivePrice(p) ELSE 0

\* ProductWithPricingDto.fromProduct, as its JSON body
fromProduct(p) ==
  [id |-> p.id,
   originalPrice |-> p.price,
   effectivePrice |-> effectivePrice(p),
   discountAmount |-> discountAmount(p),
   stock_quantity |-> p.stock_quantity,
   image_url |-> p.image_url,
   discount_percentage |->
     IF Truthy(p.discount_percentage) THEN p.discount_percentage ELSE Undefined,
   isDiscountActive |-> isDiscountActive(p),
   discount_start_date |-> p.discount_start_date,
   discount_end_date |-> p.discount_end_date,
   created_at |-> p.created_at]

\* isValidMonetaryAmount
isValidMonetaryAmount(n) == n >= 0

----------------------------------------------------------------------------
(* Cache keys                                                              *)

\* ProductsService: `${PRODUCT_CACHE_PREFIX}:${id}`
ProductCacheKey(id) == <<"product", id>>

\* CartService.CART_CACHE_KEY
CART_CACHE_KEY == <<"cart", "items">>

\* CacheInterceptor.generateCacheKey: prefix:method:url[:params][:query]
generateCacheKey(prefix, method, url, query, params) ==
  <<prefix, method, url>>
    \o (IF Len(params) > 0 THEN <<params>> ELSE <<>>)
    \o (IF Len(query) > 0 THEN <<query>> ELSE <<>>)

\* GET /products/:id  (@Cache keyPrefix 'product')
ProductRouteKey(id) ==
  generateCacheKey("product", "GET", <<"products", id>>, <<>>, << <<"id", id>> >>)

\* GET /products  (@Cache keyPrefix 'products_list'), no query parameters
ListRouteKey ==
  generateCacheKey("products_list", "GET", <<"products">>, <<>>, <<>>)

\* the glob `${PRODUCTS_LIST_CACHE_PREFIX}:*`
LIST_PATTERN == <<"products_list", "*">>
MatchesListPattern(k) == Len(k) > 1 /\ k[1] = LIST_PATTERN[1]

Entry(v, ttl) == [value |-> v, ttl |-> ttl]

\* RedisService.set / setJson: no-op when the client is closed
CacheSet(c, k, v, ttl) ==
  IF connected THEN [x \in DOMAIN c \cup {k} |-> IF x = k THEN Entry(v, ttl) ELSE c[x]]
  ELSE c

\* RedisService.del of a set of keys: no-op when the client is closed
CacheDel(c, ks) ==
  IF connected THEN [x \in DOMAIN c \ ks |-> c[x]] ELSE c

\* RedisService.getJson: a hit needs an open client and a stored value
CacheHit(k) == connected /\ k \in DOMAIN cache

\* what a command sent to Redis does: it is carried out, or it is rejected and
\* RedisService catches the error (get -> null, set / del / flushPattern -> false)
Outcomes == IF redisErrors THEN {"ok", "error"} ELSE {"ok"}

----------------------------------------------------------------------------
(* Request slots                                                           *)

NoDto ==
  [price |-> Undefined, stock_quantity |-> Undefined,
   discount_percentage |-> Undefined, discount_start_date |-> Undefined,
   discount_end_date |-> Undefined, image |-> Undefined, quantity |-> Undefined]

NoItem == [id |-> "-", product_id |-> "-", quantity |-> 0, created_at |-> 0]

NoBody == [none |-> TRUE]

Idle ==
  [op |-> "idle", pc |-> "idle", id |-> "-", dto |-> NoDto,
   product |-> NoProduct, item |-> NoItem, keys |-> {}, tap |-> FALSE,
   status |-> "pending", body |-> NoBody, events |-> <<>>, after |-> FALSE]

\* no arithmetic utility is being evaluated
NoCall == [fn |-> "none", args |-> <<>>, returned |-> FALSE, result |-> 0]

InFlight(r) == req[r].pc \notin {"idle", "done"}

ProductWrites == {"create", "update", "remove", "applyDiscount", "removeDiscount"}

\* a request is accepted into the lowest free slot
CanBegin(r, max) ==
  /\ started < max
  /\ ~InFlight(r)
  /\ \A x \in Reqs : x < r => InFlight(x)

\* the service starts on a store holding `table` and `lines`, at time `t`, with
\* the objects `objs` in the bucket; nothing is cached and no request is running;
\* the Redis client is open or not, the server healthy or not
StartUpOn(table, lines, t, objs, open, errors) ==
  /\ products = table
  /\ cartItems = lines
  /\ cache = [k \in {} |-> Entry(NoBody, 0)]
  /\ connected = open
  /\ redisErrors = errors
  /\ quantityCheck \in BOOLEAN
  /\ now = t
  /\ blobs = objs
  /\ req = [r \in Reqs |-> Idle]
  /\ clock = Cardinality(DOMAIN table)
  /\ lineClock = Cardinality(DOMAIN lines)
  /\ started = 0
  /\ ackedUpdate = {}
  /\ ackedCreate = FALSE
  /\ totalAdded = [p \in ProductIds |-> 0]
  /\ overlapped = FALSE
  /\ call = NoCall

\* start-up next to a Redis that is connected and healthy
StartUp(table, lines, t, objs) == StartUpOn(table, lines, t, objs, TRUE, FALSE)

\* a product row
Row(id, price, stock, pct, at) ==
  [NoProduct EXCEPT !.id = id, !.price = price, !.stock_quantity = stock,
                    !.discount_percentage = pct, !.created_at = at]

NoLines == [i \in {} |-> NoItem]

Init ==
  StartUp([i \in {"p1", "p2"} |->
             IF i = "p1" THEN Row("p1", 1000, 3, Null, 1)
                         ELSE Row("p2", 999, 1, 2000, 2)],
          NoLines, 0, {})

----------------------------------------------------------------------------
(* Request inputs                                                          *)

ReadIds == {"p1", "p3"}
WriteIds == {"p1", "p3"}

UpdateDtos ==
  {[NoDto EXCEPT !.price = 2000],
   [NoDto EXCEPT !.price = 1000],
   [NoDto EXCEPT !.discount_percentage = 15000]}

ApplyDiscountDtos ==
  {[NoDto EXCEPT !.discount_percentage = 5000],
   [NoDto EXCEPT !.discount_percentage = 0],
   [NoDto EXCEPT !.discount_percentage = 15000]}

CreateDtos ==
  {[NoDto EXCEPT !.price = 3000, !.stock_quantity = 1],
   [NoDto EXCEPT !.price = 0, !.stock_quantity = 1]}

----------------------------------------------------------------------------
(* History bookkeeping shared by the handlers                              *)

OtherWriteInFlight(r, id) ==
  \E x \in Reqs \ {r} :
    /\ InFlight(x)
    /\ req[x].op \in ProductWrites
    /\ (id = "-" \/ req[x].op = "create" \/ req[x].id = id)

\* a product write on `id` begins: reads that began earlier no longer count
\* as having begun after the last acknowledged write
ClearAfter(rq, id) ==
  [x \in Reqs |->
     IF \/ rq[x].op = "findAll"
        \/ (rq[x].op = "findOne" /\ rq[x].id = id)
     THEN [rq[x] EXCEPT !.after = FALSE]
     ELSE rq[x]]

Accept(r, rec) ==
  /\ req' = [req EXCEPT ![r] = rec]
  /\ started' = started + 1
  /\ overlapped' = (overlapped \/ \E x \in Reqs \ {r} : InFlight(x))

AcceptWrite(r, id, rec) ==
  /\ req' = [ClearAfter(req, id) EXCEPT ![r] = rec]
  /\ started' = started + 1
  /\ overlapped' = (overlapped \/ \E x \in Reqs \ {r} : InFlight(x))
  /\ ackedUpdate' = ackedUpdate \ {id}
  /\ ackedCreate' = FALSE

Reject(rec, status) == [rec EXCEPT !.pc = "done", !.status = status]

\* the handler returns `body` to the caller
Respond(r, rec, body) ==
  /\ req' = [req EXCEPT ![r] = [rec EXCEPT !.pc = "done", !.status = "ok", !.body = body]]
  /\ ackedUpdate' =
       IF rec.op = "update" /\ ~OtherWriteInFlight(r, rec.id)
       THEN ackedUpdate \cup {rec.id} ELSE ackedUpdate
  /\ ackedCreate' =
       IF rec.op = "create" /\ ~OtherWriteInFlight(r, "-") THEN TRUE ELSE ackedCreate

Log(rec, e) == [rec EXCEPT !.events = Append(rec.events, e)]

----------------------------------------------------------------------------
(* ProductsService writes                                                  *)

\* IsDateAfterConstraint.validate on discount_end_date: the end is compared with
\* the start that came in the same DTO, and passes when either is missing
IsDateAfter(dto) ==
  \/ NoDate(dto.discount_end_date)
  \/ NoDate(dto.discount_start_date)
  \/ dto.discount_end_date > dto.discount_start_date

\* ValidationPipe on UpdateProductDto / CreateProductDto fields that are present
ProductDtoValid(dto) ==
  /\ dto.price = Undefined \/ dto.price > 0
  /\ dto.stock_quantity = Undefined \/ dto.stock_quantity >= 0
  /\ dto.discount_percentage = Undefined
       \/ (dto.discount_percentage >= 0 /\ dto.discount_percentage <= FullPercent)
  /\ IsDateAfter(dto)

\* the price / percentage checks at the top of create and update
ServiceDtoValid(dto) ==
  /\ dto.price = Undefined \/ isValidMonetaryAmount(dto.price)
  /\ dto.discount_percentage = Undefined
       \/ (isValidMonetaryAmount(dto.discount_percentage)
           /\ dto.discount_percentage <= FullPercent)

\* Object.assign(product, updateData): updateData spreads the DTO and always
\* carries the two date keys, undefined when the DTO has none
Assign(p, dto) ==
  [p EXCEPT
     !.price = IF dto.price # Undefined THEN dto.price ELSE @,
     !.stock_quantity = IF dto.stock_quantity # Undefined THEN dto.stock_quantity ELSE @,
     !.discount_percentage =
        IF dto.discount_percentage # Undefined THEN dto.discount_percentage ELSE @,
     !.discount_start_date = dto.discount_start_date,
     !.discount_end_date = dto.discount_end_date]

\* repository.save(entity) over the stored row `old`: a property that is
\* undefined is skipped, so the column keeps what the row holds
Persist(entity, old) ==
  [f \in DOMAIN entity |->
     IF f # "id" /\ entity[f] = Undefined THEN old[f] ELSE entity[f]]

\* the image stored with a product before start-up, and the multipart file
\* part of a request
FirstImage == 1
File == 0

\* `${folder}/${uuidv4()}`: a locator no earlier upload was given
uuidv4 == FirstImage + started + 1

\* PUT /products/:id up to the first await
BeginUpdate(r, id, dto, max) ==
  /\ CanBegin(r, max)
  /\ LET file == IF dto.image = Undefined THEN Undefined ELSE uuidv4
         rec == [Idle EXCEPT !.op = "update", !.id = id, !.pc = "find",
                             !.dto = [dto EXCEPT !.image = file]]
     IN IF ProductDtoValid(dto) /\ ServiceDtoValid(dto)
        THEN AcceptWrite(r, id, rec)
        ELSE Accept(r, Reject(rec, "BadRequest")) /\ UNCHANGED <<ackedUpdate, ackedCreate>>
  /\ UNCHANGED <<products, cartItems, cache, connected, redisErrors, quantityCheck, call, now, blobs, clock, lineClock, totalAdded>>

\* DELETE /products/:id
BeginRemove(r, id, max) ==
  /\ CanBegin(r, max)
  /\ AcceptWrite(r, id, [Idle EXCEPT !.op = "remove", !.id = id, !.pc = "find"])
  /\ UNCHANGED <<products, cartItems, cache, connected, redisErrors, quantityCheck, call, now, blobs, clock, lineClock, totalAdded>>

\* ValidationPipe on ApplyDiscountDto
ApplyDiscountDtoValid(dto) ==
  /\ dto.discount_percentage # Undefined
  /\ dto.discount_percentage >= 0
  /\ dto.discount_percentage <= FullPercent
  /\ IsDateAfter(dto)

\* applyDiscount, after findOneEntity: both dates given and endDate <= startDate
DateRangeRejected(dto) ==
  /\ ~NoDate(dto.discount_start_date)
  /\ ~NoDate(dto.discount_end_date)
  /\ dto.discount_end_date <= dto.discount_start_date

\* the percentage check at the top of applyDiscount
ApplyDiscountServiceValid(dto) ==
  /\ isValidMonetaryAmount(dto.discount_percentage)
  /\ ~(dto.discount_percentage <= 0)
  /\ ~(dto.discount_percentage > FullPercent)

\* PUT /products/:id/discount up to the first await
BeginApplyDiscount(r, id, dto, max) ==
  /\ CanBegin(r, max)
  /\ LET rec == [Idle EXCEPT !.op = "applyDiscount", !.id = id, !.dto = dto, !.pc = "find"]
     IN IF ApplyDiscountDtoValid(dto) /\ ApplyDiscountServiceValid(dto)
        THEN AcceptWrite(r, id, rec)
        ELSE Accept(r, Reject(rec, "BadRequest")) /\ UNCHANGED <<ackedUpdate, ackedCreate>>
  /\ UNCHANGED <<products, cartItems, cache, connected, redisErrors, quantityCheck, call, now, blobs, clock, lineClock, totalAdded>>

\* DELETE /products/:id/discount
BeginRemoveDiscount(r, id, max) ==
  /\ CanBegin(r, max)
  /\ AcceptWrite(r, id, [Idle EXCEPT !.op = "removeDiscount", !.id = id, !.pc = "find"])
  /\ UNCHANGED <<products, cartItems, cache, connected, redisErrors, quantityCheck, call, now, blobs, clock, lineClock, totalAdded>>

\* the writes, with a removeDiscount that leaves the two dates undefined
PreparedDatesUndefined(rec, row) ==
  CASE rec.op = "update" -> Assign(row, rec.dto)
    [] rec.op = "applyDiscount" ->
         [row EXCEPT !.discount_percentage = rec.dto.discount_percentage,
                     !.discount_start_date = rec.dto.discount_start_date,
                     !.discount_end_date = rec.dto.discount_end_date]
    [] rec.op = "removeDiscount" ->
         [row EXCEPT !.discount_percentage = Null,
                     !.discount_start_date = Undefined,
                     !.discount_end_date = Undefined]
    [] OTHER -> row

\* what each write does to the entity it loaded, before saving it
Prepared(rec, row) ==
  CASE rec.op = "update" -> Assign(row, rec.dto)
    [] rec.op = "applyDiscount" ->
         [row EXCEPT !.discount_percentage = rec.dto.discount_percentage,
                     !.discount_start_date = rec.dto.discount_start_date,
                     !.discount_end_date = rec.dto.discount_end_date]
    [] rec.op = "removeDiscount" ->
         [row EXCEPT !.discount_percentage = Null,
                     !.discount_start_date = Null,
                     !.discount_end_date = Null]
    [] OTHER -> row

\* the first await after findOneEntity: update with a replacement image and
\* remove first delete the image the row points to, if it has one
AfterFind(rec, row) ==
  CASE rec.op = "remove" ->
         IF Truthy(row.image_url) THEN "s3_delete" ELSE "remove"
    [] rec.op = "update" /\ rec.dto.image # Undefined ->
         IF Truthy(row.image_url) THEN "s3_delete" ELSE "s3_upload"
    [] OTHER -> "save"

\* a lookup that goes on with an empty row when the id has no row
WriteFindUnchecked(r) ==
  /\ req[r].op \in {"update", "remove", "applyDiscount", "removeDiscount"}
  /\ req[r].pc = "find"
  /\ LET row == IF req[r].id \in DOMAIN products THEN products[req[r].id]
                ELSE [NoProduct EXCEPT !.id = req[r].id]
     IN req' = [req EXCEPT ![r] =
          IF req[r].op = "applyDiscount" /\ DateRangeRejected(req[r].dto)
          THEN Reject(req[r], "BadRequest")
          ELSE [req[r] EXCEPT !.product = Prepared(req[r], row),
                              !.pc = AfterFind(req[r], row)]]
  /\ UNCHANGED <<products, cartItems, cache, connected, redisErrors, quantityCheck, call, now, blobs, clock, lineClock, started,
                 ackedUpdate, ackedCreate, totalAdded, overlapped>>

\* findOneEntity(id), then the synchronous code up to the next await
WriteFind(r) ==
  /\ req[r].op \in {"update", "remove", "applyDiscount", "removeDiscount"}
  /\ req[r].pc = "find"
  /\ req' = [req EXCEPT ![r] =
       IF req[r].id \notin DOMAIN products
       THEN Reject(req[r], "NotFound")
       ELSE IF req[r].op = "applyDiscount" /\ DateRangeRejected(req[r].dto)
       THEN Reject(req[r], "BadRequest")
       ELSE [req[r] EXCEPT !.product = Prepared(req[r], products[req[r].id]),
                           !.pc = AfterFind(req[r], products[req[r].id])]]
  /\ UNCHANGED <<products, cartItems, cache, connected, redisErrors, quantityCheck, call, now, blobs, clock, lineClock, started,
                 ackedUpdate, ackedCreate, totalAdded, overlapped>>

\* S3Service.deleteFile(product.image_url): the object is deleted, or the
\* request to S3 fails and the error is swallowed
S3Delete(r) ==
  /\ req[r].op \in {"update", "remove"}
  /\ req[r].pc = "s3_delete"
  /\ \E deleted \in BOOLEAN :
       blobs' = IF deleted THEN blobs \ {req[r].product.image_url} ELSE blobs
  /\ req' = [req EXCEPT ![r] =
       [req[r] EXCEPT !.pc = IF req[r].op = "remove" THEN "remove" ELSE "s3_upload"]]
  /\ UNCHANGED <<products, cartItems, cache, connected, redisErrors, quantityCheck, call, now, clock,
                 lineClock, started, ackedUpdate, ackedCreate, totalAdded, overlapped>>

\* an upload whose failure is swallowed: the handler goes on with the locator
S3UploadSwallowed(r) ==
  /\ req[r].op \in {"update", "create"}
  /\ req[r].pc = "s3_upload"
  /\ \E stored \in BOOLEAN :
       blobs' = IF stored THEN blobs \cup {req[r].dto.image} ELSE blobs
  /\ req' = [req EXCEPT ![r] =
       [req[r] EXCEPT !.product = [req[r].product EXCEPT !.image_url = req[r].dto.image],
                      !.pc = "save"]]
  /\ UNCHANGED <<products, cartItems, cache, connected, redisErrors, quantityCheck, call, now, clock,
                 lineClock, started, ackedUpdate, ackedCreate, totalAdded, overlapped>>

\* S3Service.uploadFile(imageFile): the object is stored under a fresh locator
\* that becomes image_url, or the request fails with BadRequestException
S3Upload(r) ==
  /\ req[r].op \in {"update", "create"}
  /\ req[r].pc = "s3_upload"
  /\ \/ /\ blobs' = blobs \cup {req[r].dto.image}
        /\ req' = [req EXCEPT ![r] =
             [req[r] EXCEPT !.product = [req[r].product EXCEPT
                                           !.image_url = req[r].dto.image],
                            !.pc = "save"]]
     \/ /\ blobs' = blobs
        /\ req' = [req EXCEPT ![r] = Reject(req[r], "BadRequest")]
  /\ UNCHANGED <<products, cartItems, cache, connected, redisErrors, quantityCheck, call, now, clock,
                 lineClock, started, ackedUpdate, ackedCreate, totalAdded, overlapped>>

\* productRepository.save(product): the row becomes the entity (inserted if gone)
WriteSave(r) ==
  /\ req[r].op \in {"update", "applyDiscount", "removeDiscount"}
  /\ req[r].pc = "save"
  /\ LET old == IF req[r].id \in DOMAIN products THEN products[req[r].id] ELSE NoProduct
     IN products' = [x \in DOMAIN products \cup {req[r].id} |->
                       IF x = req[r].id THEN Persist(req[r].product, old) ELSE products[x]]
  /\ req' = [req EXCEPT ![r] = [Log(req[r], <<"write">>) EXCEPT !.pc = "del"]]
  /\ UNCHANGED <<cartItems, cache, connected, redisErrors, quantityCheck, call, now, blobs, clock, lineClock, started,
                 ackedUpdate, ackedCreate, totalAdded, overlapped>>

\* a store that deletes a product row whatever refers to it
WriteRemoveUnchecked(r) ==
  /\ req[r].op = "remove"
  /\ req[r].pc = "remove"
  /\ products' = [x \in DOMAIN products \ {req[r].id} |-> products[x]]
  /\ req' = [req EXCEPT ![r] = [Log(req[r], <<"write">>) EXCEPT !.pc = "del"]]
  /\ UNCHANGED <<cartItems, cache, connected, redisErrors, quantityCheck, call, now, blobs, clock, lineClock, started,
                 ackedUpdate, ackedCreate, totalAdded, overlapped>>

\* cart_items.product_id is a foreign key to products (@ManyToOne with
\* @JoinColumn, no onDelete): the store refuses to delete a referenced row
ReferencedByCart(id) == \E l \in DOMAIN cartItems : cartItems[l].product_id = id

\* productRepository.remove(product): the row is deleted, or the store refuses
\* and the query error leaves the handler
WriteRemove(r) ==
  /\ req[r].op = "remove"
  /\ req[r].pc = "remove"
  /\ IF ReferencedByCart(req[r].id)
     THEN /\ products' = products
          /\ req' = [req EXCEPT ![r] = Reject(req[r], "InternalServerError")]
     ELSE /\ products' = [x \in DOMAIN products \ {req[r].id} |-> products[x]]
          /\ req' = [req EXCEPT ![r] = [Log(req[r], <<"write">>) EXCEPT !.pc = "del"]]
  /\ UNCHANGED <<cartItems, cache, connected, redisErrors, quantityCheck, call, now, blobs, clock, lineClock, started,
                 ackedUpdate, ackedCreate, totalAdded, overlapped>>

\* a write path that returns without deleting the product's key
WriteDelSkipped(r) ==
  /\ req[r].op \in {"update", "remove", "applyDiscount", "removeDiscount"}
  /\ req[r].pc = "del"
  /\ req' = [req EXCEPT ![r] = [req[r] EXCEPT !.pc = "flush"]]
  /\ UNCHANGED <<products, cartItems, cache, connected, redisErrors, quantityCheck, call, now, blobs, clock, lineClock,
                 started, ackedUpdate, ackedCreate, totalAdded, overlapped>>

\* a del whose failure leaves the handler as an exception
WriteDelThrows(r) ==
  /\ req[r].op \in {"update", "remove", "applyDiscount", "removeDiscount"}
  /\ req[r].pc = "del"
  /\ \E o \in Outcomes :
       IF connected /\ o = "ok"
       THEN /\ cache' = CacheDel(cache, {ProductCacheKey(req[r].id)})
            /\ req' = [req EXCEPT ![r] =
                 [Log(req[r], <<"del", ProductCacheKey(req[r].id)>>) EXCEPT !.pc = "flush"]]
       ELSE /\ cache' = cache
            /\ req' = [req EXCEPT ![r] = Reject(req[r], "InternalServerError")]
  /\ UNCHANGED <<products, cartItems, connected, redisErrors, quantityCheck, call, now, blobs, clock,
                 lineClock, started, ackedUpdate, ackedCreate, totalAdded, overlapped>>

\* redisService.del(`product:${id}`)
WriteDel(r) ==
  /\ req[r].op \in {"update", "remove", "applyDiscount", "removeDiscount"}
  /\ req[r].pc = "del"
  /\ \E o \in Outcomes :
       cache' = IF o = "ok" THEN CacheDel(cache, {ProductCacheKey(req[r].id)}) ELSE cache
  /\ req' = [req EXCEPT ![r] =
       [Log(req[r], <<"del", ProductCacheKey(req[r].id)>>) EXCEPT !.pc = "flush"]]
  /\ UNCHANGED <<products, cartItems, connected, redisErrors, quantityCheck, call, now, blobs, clock, lineClock, started,
                 ackedUpdate, ackedCreate, totalAdded, overlapped>>

\* the body a product write returns
WriteBody(rec) == IF rec.op = "remove" THEN NoBody ELSE fromProduct(rec.product)

\* invalidateProductListCache -> flushPattern: client.keys(pattern)
WriteFlushKeys(r) ==
  /\ req[r].op \in {"update", "remove", "applyDiscount", "removeDiscount"}
  /\ req[r].pc = "flush"
  /\ \E o \in Outcomes :
       LET keys == IF connected /\ o = "ok"
                   THEN {k \in DOMAIN cache : MatchesListPattern(k)} ELSE {}
           rec == Log(req[r], <<"flush", LIST_PATTERN>>)
       IN IF keys = {}
          THEN Respond(r, rec, WriteBody(rec))
          ELSE /\ req' = [req EXCEPT ![r] = [rec EXCEPT !.keys = keys, !.pc = "flush_del"]]
               /\ UNCHANGED <<ackedUpdate, ackedCreate>>
  /\ UNCHANGED <<products, cartItems, cache, connected, redisErrors, quantityCheck, call, now, blobs, clock, lineClock, started,
                 totalAdded, overlapped>>

\* flushPattern: client.del(keys), then the handler returns
WriteFlushDel(r) ==
  /\ req[r].op \in {"update", "remove", "applyDiscount", "removeDiscount"}
  /\ req[r].pc = "flush_del"
  /\ \E o \in Outcomes :
       cache' = IF o = "ok" THEN CacheDel(cache, req[r].keys) ELSE cache
  /\ Respond(r, [req[r] EXCEPT !.keys = {}], WriteBody(req[r]))
  /\ UNCHANGED <<products, cartItems, connected, redisErrors, quantityCheck, call, now, blobs, clock, lineClock, started,
                 totalAdded, overlapped>>

\* POST /products up to the first await
BeginCreate(r, dto, max) ==
  /\ CanBegin(r, max)
  /\ clock < Len(ProductIdSeq)
  /\ \A x \in Reqs : ~(InFlight(x) /\ req[x].op = "create")
  /\ LET file == IF dto.image = Undefined THEN Undefined ELSE uuidv4
         rec == [Idle EXCEPT !.op = "create", !.dto = [dto EXCEPT !.image = file],
                             !.pc = IF file = Undefined THEN "save" ELSE "s3_upload"]
     IN IF ProductDtoValid(dto) /\ ServiceDtoValid(dto)
        THEN AcceptWrite(r, "-", rec)
        ELSE Accept(r, Reject(rec, "BadRequest")) /\ UNCHANGED <<ackedUpdate, ackedCreate>>
  /\ UNCHANGED <<products, cartItems, cache, connected, redisErrors, quantityCheck, call, now, blobs, clock, lineClock, totalAdded>>

\* productRepository.create + save: a new row with a fresh id; create returns it
CreateSave(r) ==
  /\ req[r].op = "create"
  /\ req[r].pc = "save"
  /\ LET id == ProductIdSeq[clock + 1]
         row == [id |-> id, price |-> req[r].dto.price,
                 stock_quantity |-> req[r].dto.stock_quantity,
                 image_url |-> req[r].dto.image,
                 discount_percentage |-> req[r].dto.discount_percentage,
                 discount_start_date |-> req[r].dto.discount_start_date,
                 discount_end_date |-> req[r].dto.discount_end_date,
                 created_at |-> clock + 1]
     IN /\ products' = [x \in DOMAIN products \cup {id} |->
                          IF x = id THEN Persist(row, NoProduct) ELSE products[x]]
        /\ Respond(r, [Log(req[r], <<"write">>) EXCEPT !.id = id, !.product = row],
                   fromProduct(row))
  /\ clock' = clock + 1
  /\ UNCHANGED <<cartItems, cache, connected, redisErrors, quantityCheck, call, now, blobs, lineClock, started, totalAdded,
                 overlapped>>

----------------------------------------------------------------------------
(* Cached reads: CacheInterceptor around ProductsController                *)

\* rows ordered by created_at DESC
RECURSIVE SortDesc(_)
SortDesc(rows) ==
  IF rows = {} THEN <<>>
  ELSE LET top == CHOOSE x \in rows : \A y \in rows : y.created_at <= x.created_at
       IN <<top>> \o SortDesc(rows \ {top})

\* the first `n` elements of a sequence after skipping `k`
Page(s, k, n) ==
  SubSeq(s, k + 1, IF Len(s) < k + n THEN Len(s) ELSE k + n)

\* ProductsService.findAll with the default query (page 1, limit 10, no filter)
findAll(table) ==
  LET rows == SortDesc({table[i] : i \in DOMAIN table})
      page == Page(rows, (DefaultPage - 1) * DefaultLimit, DefaultLimit)
  IN [products |-> [i \in 1..Len(page) |-> fromProduct(page[i])],
      total |-> Len(rows), page |-> DefaultPage, limit |-> DefaultLimit]

\* the key CacheInterceptor derives for the request
RouteKey(rec) ==
  IF rec.op = "findAll" THEN ListRouteKey ELSE ProductRouteKey(rec.id)

\* the @Cache ttl of the route
RouteTtl(rec) ==
  IF rec.op = "findAll" THEN LIST_ROUTE_TTL ELSE PRODUCT_ROUTE_TTL

\* GET /products/:id
BeginFindOne(r, id, max) ==
  /\ CanBegin(r, max)
  /\ Accept(r, [Idle EXCEPT !.op = "findOne", !.id = id, !.pc = "intercept",
                            !.after = (id \in ackedUpdate)])
  /\ UNCHANGED <<products, cartItems, cache, connected, redisErrors, quantityCheck, call, now, blobs, clock, lineClock,
                 ackedUpdate, ackedCreate, totalAdded>>

\* GET /products
BeginFindAll(r, max) ==
  /\ CanBegin(r, max)
  /\ Accept(r, [Idle EXCEPT !.op = "findAll", !.pc = "intercept",
                            !.after = ackedCreate])
  /\ UNCHANGED <<products, cartItems, cache, connected, redisErrors, quantityCheck, call, now, blobs, clock, lineClock,
                 ackedUpdate, ackedCreate, totalAdded>>

\* an interceptor that does not look at isConnected()
InterceptNoBypass(r) ==
  /\ req[r].op \in {"findOne", "findAll"}
  /\ req[r].pc = "intercept"
  /\ LET key == RouteKey(req[r])
         next == IF req[r].op = "findAll" THEN "list_db" ELSE "svc_cache"
     IN \E o \in Outcomes :
          req' = [req EXCEPT ![r] =
            IF o = "ok" /\ CacheHit(key)
            THEN [req[r] EXCEPT !.pc = "done", !.status = "ok", !.body = cache[key].value]
            ELSE [req[r] EXCEPT !.pc = next, !.tap = TRUE]]
  /\ UNCHANGED <<products, cartItems, cache, connected, redisErrors, quantityCheck, call, now, blobs, clock,
                 lineClock, started, ackedUpdate, ackedCreate, totalAdded, overlapped>>

\* an interceptor that runs the handler whatever getJson returned
InterceptRecomputes(r) ==
  /\ req[r].op \in {"findOne", "findAll"}
  /\ req[r].pc = "intercept"
  /\ LET next == IF req[r].op = "findAll" THEN "list_db" ELSE "svc_cache"
     IN req' = [req EXCEPT ![r] = [req[r] EXCEPT !.pc = next, !.tap = connected]]
  /\ UNCHANGED <<products, cartItems, cache, connected, redisErrors, quantityCheck, call, now, blobs, clock,
                 lineClock, started, ackedUpdate, ackedCreate, totalAdded, overlapped>>

\* CacheInterceptor.intercept: bypass when Redis is closed, else getJson(cacheKey)
Intercept(r) ==
  /\ req[r].op \in {"findOne", "findAll"}
  /\ req[r].pc = "intercept"
  /\ LET key == RouteKey(req[r])
         next == IF req[r].op = "findAll" THEN "list_db" ELSE "svc_cache"
     IN \E o \in Outcomes :
          req' = [req EXCEPT ![r] =
            IF ~connected THEN [req[r] EXCEPT !.pc = next, !.tap = FALSE]
            ELSE IF o = "ok" /\ CacheHit(key)
                 THEN [req[r] EXCEPT !.pc = "done", !.status = "ok",
                                     !.body = cache[key].value]
                 ELSE [req[r] EXCEPT !.pc = next, !.tap = TRUE]]
  /\ UNCHANGED <<products, cartItems, cache, connected, redisErrors, quantityCheck, call, now, blobs, clock, lineClock, started,
                 ackedUpdate, ackedCreate, totalAdded, overlapped>>

\* where a read goes once the handler has produced its result
AfterHandler(rec) == IF rec.tap THEN "tap" ELSE "done"

\* ProductsService.findOne: getJson(`product:${id}`)
FindOneCacheGet(r) ==
  /\ req[r].op = "findOne"
  /\ req[r].pc = "svc_cache"
  /\ LET key == ProductCacheKey(req[r].id)
     IN \E o \in Outcomes :
        req' = [req EXCEPT ![r] =
          IF o = "ok" /\ CacheHit(key)
          THEN [req[r] EXCEPT !.pc = AfterHandler(req[r]), !.status = "ok",
                              !.body = cache[key].value]
          ELSE [req[r] EXCEPT !.pc = "svc_db"]]
  /\ UNCHANGED <<products, cartItems, cache, connected, redisErrors, quantityCheck, call, now, blobs, clock, lineClock, started,
                 ackedUpdate, ackedCreate, totalAdded, overlapped>>

\* a database read that caches the missing row as a null before it fails
FindOneDbReadCachesNull(r) ==
  /\ req[r].op = "findOne"
  /\ req[r].pc = "svc_db"
  /\ req' = [req EXCEPT ![r] =
       IF req[r].id \notin DOMAIN products
       THEN Reject(req[r], "NotFound")
       ELSE [req[r] EXCEPT !.product = products[req[r].id], !.pc = "svc_set"]]
  /\ cache' = IF req[r].id \notin DOMAIN products
              THEN CacheSet(cache, ProductCacheKey(req[r].id), NoBody, CACHE_TTL)
              ELSE cache
  /\ UNCHANGED <<products, cartItems, connected, redisErrors, quantityCheck, call, now, blobs, clock, lineClock, started,
                 ackedUpdate, ackedCreate, totalAdded, overlapped>>

\* ProductsService.findOne: productRepository.findOne, NotFound or the projection
FindOneDbRead(r) ==
  /\ req[r].op = "findOne"
  /\ req[r].pc = "svc_db"
  /\ req' = [req EXCEPT ![r] =
       IF req[r].id \notin DOMAIN products
       THEN Reject(req[r], "NotFound")
       ELSE [req[r] EXCEPT !.product = products[req[r].id], !.pc = "svc_set"]]
  /\ UNCHANGED <<products, cartItems, cache, connected, redisErrors, quantityCheck, call, now, blobs, clock, lineClock, started,
                 ackedUpdate, ackedCreate, totalAdded, overlapped>>

\* ProductsService.findOne: setJson(cacheKey, productWithPricing, CACHE_TTL), return
FindOneCacheSet(r) ==
  /\ req[r].op = "findOne"
  /\ req[r].pc = "svc_set"
  /\ LET body == fromProduct(req[r].product)
     IN /\ \E o \in Outcomes :
             cache' = IF o = "ok"
                      THEN CacheSet(cache, ProductCacheKey(req[r].id), body, CACHE_TTL)
                      ELSE cache
        /\ req' = [req EXCEPT ![r] =
             [req[r] EXCEPT !.pc = AfterHandler(req[r]), !.status = "ok",
                            !.body = body]]
  /\ UNCHANGED <<products, cartItems, connected, redisErrors, quantityCheck, call, now, blobs, clock, lineClock, started,
                 ackedUpdate, ackedCreate, totalAdded, overlapped>>

\* ProductsService.findAll: productRepository.findAndCount, return
FindAllDbRead(r) ==
  /\ req[r].op = "findAll"
  /\ req[r].pc = "list_db"
  /\ req' = [req EXCEPT ![r] =
       [req[r] EXCEPT !.pc = AfterHandler(req[r]), !.status = "ok",
                      !.body = findAll(products)]]
  /\ UNCHANGED <<products, cartItems, cache, connected, redisErrors, quantityCheck, call, now, blobs, clock, lineClock, started,
                 ackedUpdate, ackedCreate, totalAdded, overlapped>>

\* a tap that stores every result for the default 300 seconds
InterceptTapDefaultTtl(r) ==
  /\ req[r].op \in {"findOne", "findAll"}
  /\ req[r].pc = "tap"
  /\ \E o \in Outcomes :
       cache' = IF o = "ok"
                THEN CacheSet(cache, RouteKey(req[r]), req[r].body, LIST_ROUTE_TTL)
                ELSE cache
  /\ req' = [req EXCEPT ![r].pc = "done"]
  /\ UNCHANGED <<products, cartItems, connected, redisErrors, quantityCheck, call, now, blobs, clock,
                 lineClock, started, ackedUpdate, ackedCreate, totalAdded, overlapped>>

\* CacheInterceptor.intercept: tap -> setJson(cacheKey, result, ttl)
InterceptTap(r) ==
  /\ req[r].op \in {"findOne", "findAll"}
  /\ req[r].pc = "tap"
  /\ \E o \in Outcomes :
       cache' = IF o = "ok"
                THEN CacheSet(cache, RouteKey(req[r]), req[r].body, RouteTtl(req[r]))
                ELSE cache
  /\ req' = [req EXCEPT ![r].pc = "done"]
  /\ UNCHANGED <<products, cartItems, connected, redisErrors, quantityCheck, call, now, blobs, clock, lineClock, started,
                 ackedUpdate, ackedCreate, totalAdded, overlapped>>

\* Redis evicts an entry whose TTL has run out
Expire(k) ==
  /\ k \in DOMAIN cache
  /\ cache[k].ttl > 0
  /\ cache' = [x \in DOMAIN cache \ {k} |-> cache[x]]
  /\ UNCHANGED <<products, cartItems, connected, redisErrors, quantityCheck, call, now, blobs, req, clock, lineClock, started,
                 ackedUpdate, ackedCreate, totalAdded, overlapped>>

----------------------------------------------------------------------------
(* Specification of the product catalogue and its caches                   *)

ProductStep(r) ==
  \/ WriteFind(r)
  \/ WriteSave(r)
  \/ WriteRemove(r)
  \/ WriteDel(r)
  \/ WriteFlushKeys(r)
  \/ WriteFlushDel(r)
  \/ CreateSave(r)
  \/ Intercept(r)
  \/ FindOneCacheGet(r)
  \/ FindOneDbRead(r)
  \/ FindOneCacheSet(r)
  \/ FindAllDbRead(r)
  \/ InterceptTap(r)

BeginProduct(r, max) ==
  \/ \E id \in ReadIds : BeginFindOne(r, id, max)
  \/ BeginFindAll(r, max)
  \/ \E id \in WriteIds, dto \in UpdateDtos : BeginUpdate(r, id, dto, max)
  \/ \E id \in WriteIds : BeginRemove(r, id, max)
  \/ \E id \in WriteIds, dto \in ApplyDiscountDtos : BeginApplyDiscount(r, id, dto, max)
  \/ \E id \in WriteIds : BeginRemoveDiscount(r, id, max)
  \/ \E dto \in CreateDtos : BeginCreate(r, dto, max)

Evict == \E k \in DOMAIN cache : Expire(k)

NextCache ==
  \/ \E r \in Reqs : BeginProduct(r, MaxCacheRequests) \/ ProductStep(r)
  \/ Evict

SpecCache == Init /\ [][NextCache]_vars

----------------------------------------------------------------------------
(* CartService                                                             *)

AddProductIds == {"p1", "p2", UnknownId}
AddQuantities == {0 - QScale, 0, QScale, QScale + 1, 2 * QScale}
RemoveLineIds == {"l1", "l2"}

CartWrites == {"addToCart", "removeFromCart", "clearCart"}

\* the cart lines of a product
LinesOf(table, pid) == {l \in DOMAIN table : table[l].product_id = pid}

RECURSIVE SumQuantity(_, _)
SumQuantity(table, ls) ==
  IF ls = {} THEN 0
  ELSE LET l == CHOOSE x \in ls : TRUE
       IN table[l].quantity + SumQuantity(table, ls \ {l})

\* the quantity of a product held in the cart, over all of its lines
QuantityOf(table, pid) == SumQuantity(table, LinesOf(table, pid))

\* AddToCartDto: @IsNumber() @Min(1) quantity
AddToCartDtoValid(dto) == dto.quantity >= 1 * QScale

\* the one statement in which the two copies of addToCart differ:
\* !Number.isInteger(quantity) || quantity <= 0
IsPositiveInteger(quantity) == quantity % QScale = 0 /\ quantity > 0

\* product.stock_quantity < quantity
InsufficientStock(product, quantity) == product.stock_quantity * QScale < quantity

\* a merge that counts the requested quantity twice
MergedQuantityTwice(existing, quantity) == existing.quantity + quantity + quantity

\* existingCartItem.quantity + quantity
MergedQuantity(existing, quantity) == existing.quantity + quantity

\* POST /cart/items up to the first await
BeginAddToCart(r, pid, q, max) ==
  /\ CanBegin(r, max)
  /\ LET rec == [Idle EXCEPT !.op = "addToCart", !.id = pid, !.pc = "find",
                             !.dto = [NoDto EXCEPT !.quantity = q]]
         valid == /\ AddToCartDtoValid(rec.dto)
                  /\ quantityCheck => IsPositiveInteger(q)
     IN Accept(r, IF valid THEN rec ELSE Reject(rec, "BadRequest"))
  /\ UNCHANGED <<products, cartItems, cache, connected, redisErrors, quantityCheck, call, now, blobs, clock, lineClock,
                 ackedUpdate, ackedCreate, totalAdded>>

\* a lookup that falls back to a default product when the id is unknown
AddFindDefault(r) ==
  /\ req[r].op = "addToCart"
  /\ req[r].pc = "find"
  /\ LET product == IF req[r].id \in DOMAIN products
                    THEN products[req[r].id]
                    ELSE [NoProduct EXCEPT !.id = req[r].id, !.stock_quantity = 1]
     IN req' = [req EXCEPT ![r] =
          IF InsufficientStock(product, req[r].dto.quantity)
          THEN Reject(req[r], "BadRequest")
          ELSE [req[r] EXCEPT !.product = product, !.pc = "lookup"]]
  /\ UNCHANGED <<products, cartItems, cache, connected, redisErrors, quantityCheck, call, now, blobs, clock, lineClock,
                 started, ackedUpdate, ackedCreate, totalAdded, overlapped>>

\* addToCart: productsService.findOneEntity(product_id), then the stock check
AddFind(r) ==
  /\ req[r].op = "addToCart"
  /\ req[r].pc = "find"
  /\ req' = [req EXCEPT ![r] =
       IF req[r].id \notin DOMAIN products
       THEN Reject(req[r], "NotFound")
       ELSE IF InsufficientStock(products[req[r].id], req[r].dto.quantity)
            THEN Reject(req[r], "BadRequest")
            ELSE [req[r] EXCEPT !.product = products[req[r].id], !.pc = "lookup"]]
  /\ UNCHANGED <<products, cartItems, cache, connected, redisErrors, quantityCheck, call, now, blobs, clock, lineClock, started,
                 ackedUpdate, ackedCreate, totalAdded, overlapped>>

\* an add that never merges: every add becomes a new line
AfterLookupNoMerge(rec, existing) ==
  [rec EXCEPT !.pc = "save",
     !.item = [NoItem EXCEPT !.product_id = rec.id, !.quantity = rec.dto.quantity]]

\* a merge whose stock check looks at the requested quantity only
AfterLookupDeltaCheck(rec, existing) ==
  IF existing = NoItem
  THEN [rec EXCEPT !.pc = "save",
          !.item = [NoItem EXCEPT !.product_id = rec.id, !.quantity = rec.dto.quantity]]
  ELSE IF InsufficientStock(rec.product, rec.dto.quantity)
       THEN Reject(rec, "BadRequest")
       ELSE [rec EXCEPT !.pc = "save",
               !.item = [existing EXCEPT
                           !.quantity = MergedQuantity(existing, rec.dto.quantity)]]

\* the entity addToCart is about to save, given the line its lookup returned
\* (NoItem when there is none), or a rejection
AfterLookup(rec, existing) ==
  IF existing = NoItem
  THEN [rec EXCEPT !.pc = "save",
          !.item = [NoItem EXCEPT !.product_id = rec.id, !.quantity = rec.dto.quantity]]
  ELSE IF InsufficientStock(rec.product, MergedQuantity(existing, rec.dto.quantity))
       THEN Reject(rec, "BadRequest")
       ELSE [rec EXCEPT !.pc = "save",
               !.item = [existing EXCEPT
                           !.quantity = MergedQuantity(existing, rec.dto.quantity)]]

\* addToCart: cartItemRepository.findOne({ where: { product_id } }) returns one of
\* the product's lines, whichever the store finds first
AddLookup(r) ==
  /\ req[r].op = "addToCart"
  /\ req[r].pc = "lookup"
  /\ LET found == LinesOf(cartItems, req[r].id)
     IN \E l \in (IF found = {} THEN {"-"} ELSE found) :
          req' = [req EXCEPT ![r] =
            AfterLookup(req[r], IF l = "-" THEN NoItem ELSE cartItems[l])]
  /\ UNCHANGED <<products, cartItems, cache, connected, redisErrors, quantityCheck, call, now, blobs, clock, lineClock, started,
                 ackedUpdate, ackedCreate, totalAdded, overlapped>>

\* a save of the line that also takes the units out of the stock
AddSaveTakesStock(r) ==
  /\ req[r].op = "addToCart"
  /\ req[r].pc = "save"
  /\ req[r].item.id = "-" => lineClock < Len(LineIdSeq)
  /\ LET fresh == req[r].item.id = "-"
         id == IF fresh THEN LineIdSeq[lineClock + 1] ELSE req[r].item.id
         row == IF fresh
                THEN [req[r].item EXCEPT !.id = id, !.created_at = lineClock + 1]
                ELSE req[r].item
     IN IF req[r].id \in DOMAIN products
        THEN /\ cartItems' = [x \in DOMAIN cartItems \cup {id} |->
                                IF x = id THEN row ELSE cartItems[x]]
             /\ lineClock' = IF fresh THEN lineClock + 1 ELSE lineClock
             /\ req' = [req EXCEPT ![r] =
                  [Log(req[r], <<"write">>) EXCEPT !.item = row, !.pc = "del"]]
             /\ totalAdded' = [totalAdded EXCEPT ![req[r].id] = @ + req[r].dto.quantity]
             /\ products' = [products EXCEPT ![req[r].id].stock_quantity = @ - 1]
        ELSE /\ req' = [req EXCEPT ![r] = Reject(req[r], "InternalServerError")]
             /\ UNCHANGED <<products, cartItems, lineClock, totalAdded>>
  /\ UNCHANGED <<cache, connected, redisErrors, quantityCheck, call, now, blobs, clock, started,
                 ackedUpdate, ackedCreate, overlapped>>

\* addToCart: cartItemRepository.save: a new row with a fresh id, or the loaded
\* row overwritten (inserted again if it was deleted meanwhile); the store
\* refuses a row whose product is gone
AddSave(r) ==
  /\ req[r].op = "addToCart"
  /\ req[r].pc = "save"
  /\ req[r].item.id = "-" => lineClock < Len(LineIdSeq)
  /\ LET fresh == req[r].item.id = "-"
         id == IF fresh THEN LineIdSeq[lineClock + 1] ELSE req[r].item.id
         row == IF fresh
                THEN [req[r].item EXCEPT !.id = id, !.created_at = lineClock + 1]
                ELSE req[r].item
     IN IF req[r].id \in DOMAIN products
        THEN /\ cartItems' = [x \in DOMAIN cartItems \cup {id} |->
                                IF x = id THEN row ELSE cartItems[x]]
             /\ lineClock' = IF fresh THEN lineClock + 1 ELSE lineClock
             /\ req' = [req EXCEPT ![r] =
                  [Log(req[r], <<"write">>) EXCEPT !.item = row, !.pc = "del"]]
             /\ totalAdded' = [totalAdded EXCEPT ![req[r].id] = @ + req[r].dto.quantity]
        ELSE /\ req' = [req EXCEPT ![r] = Reject(req[r], "InternalServerError")]
             /\ UNCHANGED <<cartItems, lineClock, totalAdded>>
  /\ UNCHANGED <<products, cache, connected, redisErrors, quantityCheck, call, now, blobs, clock, started,
                 ackedUpdate, ackedCreate, overlapped>>

\* DELETE /cart/items/:id
BeginRemoveFromCart(r, lid, max) ==
  /\ CanBegin(r, max)
  /\ Accept(r, [Idle EXCEPT !.op = "removeFromCart", !.id = lid, !.pc = "find"])
  /\ UNCHANGED <<products, cartItems, cache, connected, redisErrors, quantityCheck, call, now, blobs, clock, lineClock,
                 ackedUpdate, ackedCreate, totalAdded>>

\* removeFromCart: cartItemRepository.findOne({ where: { id } })
RemoveFind(r) ==
  /\ req[r].op = "removeFromCart"
  /\ req[r].pc = "find"
  /\ req' = [req EXCEPT ![r] =
       IF req[r].id \notin DOMAIN cartItems
       THEN Reject(req[r], "NotFound")
       ELSE [req[r] EXCEPT !.item = cartItems[req[r].id], !.pc = "remove"]]
  /\ UNCHANGED <<products, cartItems, cache, connected, redisErrors, quantityCheck, call, now, blobs, clock, lineClock, started,
                 ackedUpdate, ackedCreate, totalAdded, overlapped>>

\* removeFromCart: cartItemRepository.remove(cartItem)
RemoveRow(r) ==
  /\ req[r].op = "removeFromCart"
  /\ req[r].pc = "remove"
  /\ cartItems' = [x \in DOMAIN cartItems \ {req[r].id} |-> cartItems[x]]
  /\ req' = [req EXCEPT ![r] = [Log(req[r], <<"write">>) EXCEPT !.pc = "del"]]
  /\ UNCHANGED <<products, cache, connected, redisErrors, quantityCheck, call, now, blobs, clock, lineClock, started,
                 ackedUpdate, ackedCreate, totalAdded, overlapped>>

\* DELETE /cart
BeginClearCart(r, max) ==
  /\ CanBegin(r, max)
  /\ Accept(r, [Idle EXCEPT !.op = "clearCart", !.pc = "clear"])
  /\ UNCHANGED <<products, cartItems, cache, connected, redisErrors, quantityCheck, call, now, blobs, clock, lineClock,
                 ackedUpdate, ackedCreate, totalAdded>>

\* a clear that treats an empty cart as an error
ClearRowsNotEmpty(r) ==
  /\ req[r].op = "clearCart"
  /\ req[r].pc = "clear"
  /\ cartItems' = [x \in {} |-> NoItem]
  /\ req' = [req EXCEPT ![r] =
       IF DOMAIN cartItems = {}
       THEN Reject(req[r], "NotFound")
       ELSE [Log(req[r], <<"write">>) EXCEPT !.pc = "del"]]
  /\ UNCHANGED <<products, cache, connected, redisErrors, quantityCheck, call, now, blobs, clock, lineClock,
                 started, ackedUpdate, ackedCreate, totalAdded, overlapped>>

\* clearCart: cartItemRepository.clear()
ClearRows(r) ==
  /\ req[r].op = "clearCart"
  /\ req[r].pc = "clear"
  /\ cartItems' = [x \in {} |-> NoItem]
  /\ req' = [req EXCEPT ![r] = [Log(req[r], <<"write">>) EXCEPT !.pc = "del"]]
  /\ UNCHANGED <<products, cache, connected, redisErrors, quantityCheck, call, now, blobs, clock, lineClock, started,
                 ackedUpdate, ackedCreate, totalAdded, overlapped>>

\* redisService.del(CART_CACHE_KEY), then the handler returns
CartDel(r) ==
  /\ req[r].op \in CartWrites
  /\ req[r].pc = "del"
  /\ \E o \in Outcomes :
       cache' = IF o = "ok" THEN CacheDel(cache, {CART_CACHE_KEY}) ELSE cache
  /\ req' = [req EXCEPT ![r] =
       [Log(req[r], <<"del", CART_CACHE_KEY>>) EXCEPT
          !.pc = "done", !.status = "ok",
          !.body = IF req[r].op = "addToCart" THEN req[r].item ELSE NoBody]]
  /\ UNCHANGED <<products, cartItems, connected, redisErrors, quantityCheck, call, now, blobs, clock, lineClock, started,
                 ackedUpdate, ackedCreate, totalAdded, overlapped>>

\* GET /cart
BeginGetCart(r, max) ==
  /\ CanBegin(r, max)
  /\ Accept(r, [Idle EXCEPT !.op = "getCart", !.pc = "find"])
  /\ UNCHANGED <<products, cartItems, cache, connected, redisErrors, quantityCheck, call, now, blobs, clock,
                 lineClock, ackedUpdate, ackedCreate, totalAdded>>

\* sumArray / reduce((sum, x) => sum + x, 0)
RECURSIVE sumArray(_)
sumArray(values) ==
  IF values = <<>> THEN 0 ELSE Head(values) + sumArray(Tail(values))

\* calculateLineTotal(quantity, unitPrice) = toPreciseDecimal(quantity * unitPrice)
calculateLineTotal(quantity, unitPrice) == RoundDiv(quantity * unitPrice, QScale)

\* safeSubtract on amounts that are whole cents
safeSubtract(minuend, subtrahend) == minuend - subtrahend

\* the `product` object of a cart item in the response
PricedProduct(product) ==
  [id |-> product.id,
   originalPrice |-> product.price,
   effectivePrice |-> effectivePrice(product),
   discountAmount |-> discountAmount(product),
   isDiscountActive |-> isDiscountActive(product),
   image_url |-> product.image_url,
   stock_quantity |-> product.stock_quantity]

\* getCart of cart.service.ts: plain arithmetic, toFixed(2) on what is returned
getCartPlain(rows, table) ==
  LET n == Len(rows)
      prod(i) == table[rows[i].product_id]
      items == [i \in 1..n |->
        [id |-> rows[i].id, product_id |-> rows[i].product_id,
         quantity |-> rows[i].quantity, created_at |-> rows[i].created_at,
         product |-> PricedProduct(prod(i)),
         lineTotal |-> RoundDiv(rows[i].quantity * effectivePrice(prod(i)), QScale),
         lineSavings |->
           RoundDiv(rows[i].quantity * prod(i).price
                      - rows[i].quantity * effectivePrice(prod(i)), QScale)]]
      totalPrice == sumArray([i \in 1..n |-> items[i].lineTotal])
      totalOriginalPrice ==
        sumArray([i \in 1..n |-> items[i].quantity * items[i].product.originalPrice])
  IN [items |-> items,
      totalItems |-> sumArray([i \in 1..n |-> rows[i].quantity]),
      totalPrice |-> totalPrice,
      totalOriginalPrice |-> RoundDiv(totalOriginalPrice, QScale),
      totalSavings |-> RoundDiv(totalOriginalPrice - QScale * totalPrice, QScale),
      uniqueProducts |-> n]

\* getCart of the copy that uses the arithmetic utilities: every intermediate
\* amount is rounded to cents
getCartPrecise(rows, table) ==
  LET n == Len(rows)
      prod(i) == table[rows[i].product_id]
      items == [i \in 1..n |->
        LET lineTotal == calculateLineTotal(rows[i].quantity, effectivePrice(prod(i)))
            originalLineTotal == calculateLineTotal(rows[i].quantity, prod(i).price)
        IN [id |-> rows[i].id, product_id |-> rows[i].product_id,
            quantity |-> rows[i].quantity, created_at |-> rows[i].created_at,
            product |-> PricedProduct(prod(i)),
            lineTotal |-> lineTotal,
            lineSavings |-> safeSubtract(originalLineTotal, lineTotal)]]
      totalPrice == sumArray([i \in 1..n |-> items[i].lineTotal])
      totalOriginalPrice ==
        sumArray([i \in 1..n |->
          calculateLineTotal(items[i].quantity, items[i].product.originalPrice)])
  IN [items |-> items,
      totalItems |-> sumArray([i \in 1..n |-> rows[i].quantity]),
      totalPrice |-> totalPrice,
      totalOriginalPrice |-> totalOriginalPrice,
      totalSavings |-> safeSubtract(totalOriginalPrice, totalPrice),
      uniqueProducts |-> n]

\* CartService.getCart: the lines newest first, each with its product
getCart(lines, table) ==
  LET rows == SortDesc({lines[l] : l \in DOMAIN lines})
  IN IF quantityCheck THEN getCartPrecise(rows, table) ELSE getCartPlain(rows, table)

\* getCart: cartItemRepository.find({ relations: ['product'] }) and the
\* arithmetic on what it returned; a line whose product row is gone has no
\* product to read the price from
GetCartFind(r) ==
  /\ req[r].op = "getCart"
  /\ req[r].pc = "find"
  /\ req' = [req EXCEPT ![r] =
       IF \E l \in DOMAIN cartItems : cartItems[l].product_id \notin DOMAIN products
       THEN Reject(req[r], "InternalServerError")
       ELSE [req[r] EXCEPT !.pc = "done", !.status = "ok",
                           !.body = getCart(cartItems, products)]]
  /\ UNCHANGED <<products, cartItems, cache, connected, redisErrors, quantityCheck, call, now, blobs, clock,
                 lineClock, started, ackedUpdate, ackedCreate, totalAdded, overlapped>>

CartStep(r) ==
  \/ AddFind(r)
  \/ AddLookup(r)
  \/ AddSave(r)
  \/ RemoveFind(r)
  \/ RemoveRow(r)
  \/ ClearRows(r)
  \/ CartDel(r)

BeginCart(r, max) ==
  \/ \E pid \in AddProductIds, q \in AddQuantities : BeginAddToCart(r, pid, q, max)
  \/ \E lid \in RemoveLineIds : BeginRemoveFromCart(r, lid, max)
  \/ BeginClearCart(r, max)

NextCart == \E r \in Reqs : BeginCart(r, MaxCartRequests) \/ CartStep(r)

SpecCart == Init /\ [][NextCart]_vars

----------------------------------------------------------------------------
(* Cart totals: getCart over carts drawn from a bounded set                *)

MaxTotalsRequests == 1

\* an undiscounted product, one with an active discount and one whose
\* discount has not started yet
TotalsTable ==
  [i \in ProductIds |->
     CASE i = "p1" -> Row("p1", 1000, 3, Null, 1)
       [] i = "p2" -> Row("p2", 999, 3, 2000, 2)
       [] OTHER -> [Row("p3", 1005, 3, 5000, 3) EXCEPT !.discount_start_date = 1]]

\* whole quantities, and the fractional one the unchecked addToCart lets in
TotalsQuantities == {QScale, 3 * QScale, QScale + 1}

LineIndex(l) == CHOOSE i \in 1..Len(LineIdSeq) : LineIdSeq[i] = l

\* the cart whose line l holds choice[l] = <<product id, quantity>>
CartOf(choice) ==
  [l \in DOMAIN choice |->
     [id |-> l, product_id |-> choice[l][1], quantity |-> choice[l][2],
      created_at |-> LineIndex(l)]]

InitTotals ==
  \E S \in SUBSET LineIds :
    \E choice \in [S -> ProductIds \X TotalsQuantities] :
      /\ StartUp(TotalsTable, CartOf(choice), 0, {})
      /\ quantityCheck => \A l \in S : IsPositiveInteger(choice[l][2])

NextTotals ==
  \E r \in Reqs : BeginGetCart(r, MaxTotalsRequests) \/ GetCartFind(r)

SpecTotals == InitTotals /\ [][NextTotals]_vars

----------------------------------------------------------------------------
(* Pricing: one read of a product drawn from a bounded set, at a drawn time *)

MaxPricingRequests == 1
MaxNow == 3

PricingPrices == {0, 1, 999, 1005}
PricingPercentages == {Null, 0, 2000, 5000, FullPercent}
PricingDates == {Null, 1, 2}

InitPricing ==
  \E price \in PricingPrices, pct \in PricingPercentages,
     start \in PricingDates, end \in PricingDates, t \in 0..MaxNow :
    StartUp([i \in {"p1"} |->
               [Row("p1", price, 1, pct, 1) EXCEPT !.discount_start_date = start,
                                                  !.discount_end_date = end]],
            NoLines, t, {})

NextPricing ==
  \E r \in Reqs :
    \/ BeginFindOne(r, "p1", MaxPricingRequests)
    \/ Intercept(r)
    \/ FindOneCacheGet(r)
    \/ FindOneDbRead(r)
    \/ FindOneCacheSet(r)
    \/ InterceptTap(r)

SpecPricing == InitPricing /\ [][NextPricing]_vars

----------------------------------------------------------------------------
(* Wall clock: reads of one product while its discount window opens and    *)
(* closes                                                                  *)

MaxClockRequests == 2
WindowStart == 1
WindowEnd == 2

\* new Date() moves on; the horizon MaxNow is far below the cache TTLs
Tick ==
  /\ now < MaxNow
  /\ now' = now + 1
  /\ UNCHANGED <<products, cartItems, cache, connected, redisErrors, quantityCheck, call, blobs, req, clock,
                 lineClock, started, ackedUpdate, ackedCreate, totalAdded, overlapped>>

InitClock ==
  StartUp([i \in {"p1"} |->
             [Row("p1", 1000, 1, 2000, 1) EXCEPT !.discount_start_date = WindowStart,
                                                !.discount_end_date = WindowEnd]],
          NoLines, 0, {})

NextClock ==
  \/ \E r \in Reqs :
       \/ BeginFindOne(r, "p1", MaxClockRequests)
       \/ Intercept(r)
       \/ FindOneCacheGet(r)
       \/ FindOneDbRead(r)
       \/ FindOneCacheSet(r)
       \/ InterceptTap(r)
  \/ Tick
  \/ Evict

SpecClock == InitClock /\ [][NextClock]_vars

----------------------------------------------------------------------------
(* removeDiscount called again and again on one discounted product         *)

MaxRemoveDiscountRequests == 2

\* the product has a discount, with or without a window
InitRemoveDiscount ==
  \E pct \in {2000, FullPercent}, start \in PricingDates, end \in PricingDates,
     t \in 0..MaxNow :
    StartUp([i \in {"p1"} |->
               [Row("p1", 1005, 1, pct, 1) EXCEPT !.discount_start_date = start,
                                                 !.discount_end_date = end]],
            NoLines, t, {})

\* nothing is ever cached here, so the list flush finds no key to delete
NextRemoveDiscount ==
  \E r \in Reqs :
    \/ BeginRemoveDiscount(r, "p1", MaxRemoveDiscountRequests)
    \/ WriteFind(r)
    \/ WriteSave(r)
    \/ WriteDel(r)
    \/ WriteFlushKeys(r)

SpecRemoveDiscount == InitRemoveDiscount /\ [][NextRemoveDiscount]_vars

----------------------------------------------------------------------------
(* Discount writes with dates: create, update, applyDiscount and           *)
(* removeDiscount on a product that has a window                           *)

MaxDiscountRequests == 3

\* only the end, only the start, a new window, an inverted window
DiscountUpdateDtos ==
  {[NoDto EXCEPT !.discount_end_date = WindowStart],
   [NoDto EXCEPT !.discount_start_date = WindowEnd + 1],
   [NoDto EXCEPT !.discount_start_date = 2, !.discount_end_date = 3],
   [NoDto EXCEPT !.discount_start_date = 2, !.discount_end_date = 1]}

DiscountApplyDtos ==
  {[NoDto EXCEPT !.discount_percentage = 0],
   [NoDto EXCEPT !.discount_percentage = FullPercent],
   [NoDto EXCEPT !.discount_percentage = FullPercent + 1],
   [NoDto EXCEPT !.discount_percentage = 5000, !.discount_start_date = 1,
                 !.discount_end_date = 2],
   [NoDto EXCEPT !.discount_percentage = 5000, !.discount_start_date = 2,
                 !.discount_end_date = 2],
   [NoDto EXCEPT !.discount_percentage = 5000, !.discount_end_date = WindowStart]}

DiscountCreateDtos ==
  {[NoDto EXCEPT !.price = 3000, !.stock_quantity = 1, !.discount_percentage = 2000,
                 !.discount_start_date = 1, !.discount_end_date = 2],
   [NoDto EXCEPT !.price = 3000, !.stock_quantity = 1, !.discount_percentage = 2000,
                 !.discount_start_date = 2, !.discount_end_date = 1]}

InitDiscount ==
  StartUp([i \in {"p1"} |->
             [Row("p1", 1000, 3, 2000, 1) EXCEPT !.discount_start_date = WindowStart,
                                                !.discount_end_date = WindowEnd]],
          NoLines, 0, {})

NextDiscount ==
  \E r \in Reqs :
    \/ \E dto \in DiscountUpdateDtos : BeginUpdate(r, "p1", dto, MaxDiscountRequests)
    \/ \E dto \in DiscountApplyDtos : BeginApplyDiscount(r, "p1", dto, MaxDiscountRequests)
    \/ BeginRemoveDiscount(r, "p1", MaxDiscountRequests)
    \/ \E dto \in DiscountCreateDtos : BeginCreate(r, dto, MaxDiscountRequests)
    \/ BeginFindAll(r, MaxDiscountRequests)
    \/ WriteFind(r)
    \/ WriteSave(r)
    \/ WriteDel(r)
    \/ WriteFlushKeys(r)
    \/ WriteFlushDel(r)
    \/ CreateSave(r)
    \/ Intercept(r)
    \/ FindAllDbRead(r)
    \/ InterceptTap(r)

SpecDiscount == InitDiscount /\ [][NextDiscount]_vars

----------------------------------------------------------------------------
(* Product images: updates that replace the image, and removals            *)

MaxImageRequests == 2

\* with a replacement image, alone or next to a new price; without one
ImageUpdateDtos ==
  {[NoDto EXCEPT !.image = File],
   [NoDto EXCEPT !.image = File, !.price = 2000],
   [NoDto EXCEPT !.price = 2000]}

\* p1 has an image in the bucket, p2 has none
InitImages ==
  StartUp([i \in {"p1", "p2"} |->
             IF i = "p1" THEN [Row("p1", 1000, 3, Null, 1) EXCEPT !.image_url = FirstImage]
                         ELSE Row("p2", 999, 1, 2000, 2)],
          NoLines, 0, {FirstImage})

\* nothing is ever cached here, so the list flush finds no key to delete
NextImages ==
  \E r \in Reqs :
    \/ \E id \in {"p1", "p2"}, dto \in ImageUpdateDtos : BeginUpdate(r, id, dto, MaxImageRequests)
    \/ \E id \in {"p1", "p2"} : BeginRemove(r, id, MaxImageRequests)
    \/ WriteFind(r)
    \/ S3Delete(r)
    \/ S3Upload(r)
    \/ WriteSave(r)
    \/ WriteRemove(r)
    \/ WriteDel(r)
    \/ WriteFlushKeys(r)

SpecImages == InitImages /\ [][NextImages]_vars

----------------------------------------------------------------------------
(* Product deletion next to the cart: remove, addToCart and getCart        *)

MaxDeleteRequests == 3

\* p1 has an image in the bucket, p2 has none; the cart is empty or holds one
\* line of either product
InitDelete ==
  \E S \in SUBSET {"l1"} :
    \E choice \in [S -> {"p1", "p2"} \X {QScale}] :
      StartUp([i \in {"p1", "p2"} |->
                 IF i = "p1" THEN [Row("p1", 1000, 3, Null, 1) EXCEPT !.image_url = FirstImage]
                             ELSE Row("p2", 999, 1, 2000, 2)],
              CartOf(choice), 0, {FirstImage})

NextDelete ==
  \E r \in Reqs :
    \/ \E id \in {"p1", "p2"} : BeginRemove(r, id, MaxDeleteRequests)
    \/ \E id \in {"p1", "p2"} : BeginAddToCart(r, id, QScale, MaxDeleteRequests)
    \/ BeginGetCart(r, MaxDeleteRequests)
    \/ WriteFind(r)
    \/ S3Delete(r)
    \/ WriteRemove(r)
    \/ WriteDel(r)
    \/ WriteFlushKeys(r)
    \/ AddFind(r)
    \/ AddLookup(r)
    \/ AddSave(r)
    \/ CartDel(r)
    \/ GetCartFind(r)

SpecDelete == InitDelete /\ [][NextDelete]_vars

----------------------------------------------------------------------------
(* Product creation with and without an image                              *)

MaxCreateRequests == 2

ImageCreateDtos ==
  {[NoDto EXCEPT !.price = price, !.stock_quantity = 1, !.image = image,
                 !.discount_percentage = pct] :
     price \in {500, 3000}, image \in {File, Undefined}, pct \in {Undefined, 2000}}

InitCreate ==
  \E objs \in SUBSET {FirstImage} :
    StartUp([i \in {"p1"} |->
               [Row("p1", 1000, 3, Null, 1) EXCEPT
                  !.image_url = IF objs = {} THEN Null ELSE FirstImage]],
            NoLines, 0, objs)

NextCreate ==
  \E r \in Reqs :
    \/ \E dto \in ImageCreateDtos : BeginCreate(r, dto, MaxCreateRequests)
    \/ S3Upload(r)
    \/ CreateSave(r)

SpecCreate == InitCreate /\ [][NextCreate]_vars

----------------------------------------------------------------------------
(* The service next to a Redis that is closed, failing, or comes and goes  *)

MaxOutageRequests == 2

\* the client's socket closes or opens again
RedisSwitch ==
  /\ connected' = ~connected
  /\ UNCHANGED <<products, cartItems, cache, redisErrors, quantityCheck, call, now, blobs, req, clock,
                 lineClock, started, ackedUpdate, ackedCreate, totalAdded, overlapped>>

InitOutage ==
  \E open \in BOOLEAN, errors \in BOOLEAN :
    StartUpOn([i \in {"p1", "p2"} |->
                 IF i = "p1" THEN Row("p1", 1000, 3, Null, 1)
                             ELSE Row("p2", 999, 1, 2000, 2)],
              NoLines, 0, {}, open, errors)

BeginOutage(r, max) ==
  \/ BeginFindOne(r, "p1", max)
  \/ BeginFindAll(r, max)
  \/ BeginUpdate(r, "p1", [NoDto EXCEPT !.price = 2000], max)
  \/ BeginApplyDiscount(r, "p1", [NoDto EXCEPT !.discount_percentage = 5000], max)
  \/ BeginRemoveDiscount(r, "p2", max)
  \/ BeginRemove(r, "p2", max)
  \/ BeginCreate(r, [NoDto EXCEPT !.price = 3000, !.stock_quantity = 1], max)
  \/ BeginAddToCart(r, "p1", QScale, max)
  \/ BeginRemoveFromCart(r, "l1", max)
  \/ BeginClearCart(r, max)
  \/ BeginGetCart(r, max)

NextOutage ==
  \/ \E r \in Reqs :
       \/ BeginOutage(r, MaxOutageRequests)
       \/ ProductStep(r)
       \/ CartStep(r)
       \/ GetCartFind(r)
  \/ RedisSwitch

SpecOutage == InitOutage /\ [][NextOutage]_vars

----------------------------------------------------------------------------
(* Reads of one product while the TTLs of its cache entries run down        *)

MaxStaleRequests == 4
TtlStep == 100
MaxStaleNow == 900

\* Redis counts every TTL down; time passes between requests, in steps of
\* TtlStep seconds, and an entry whose TTL has run out is gone
Elapse ==
  /\ \A r \in Reqs : ~InFlight(r)
  /\ now < MaxStaleNow
  /\ now' = now + TtlStep
  /\ cache' = [k \in {x \in DOMAIN cache : cache[x].ttl > TtlStep} |->
                 Entry(cache[k].value, cache[k].ttl - TtlStep)]
  /\ UNCHANGED <<products, cartItems, connected, redisErrors, quantityCheck, call, blobs, req, clock,
                 lineClock, started, ackedUpdate, ackedCreate, totalAdded, overlapped>>

InitStale ==
  \E errors \in BOOLEAN :
    StartUpOn([i \in {"p1"} |-> Row("p1", 1000, 3, Null, 1)], NoLines, 0, {}, TRUE, errors)

\* the product is written at time 0 only; it is read at any time
NextStale ==
  \/ \E r \in Reqs :
       \/ BeginFindOne(r, "p1", MaxStaleRequests)
       \/ now = 0 /\ BeginUpdate(r, "p1", [NoDto EXCEPT !.price = 2000], MaxStaleRequests)
       \/ Intercept(r)
       \/ FindOneCacheGet(r)
       \/ FindOneDbRead(r)
       \/ FindOneCacheSet(r)
       \/ InterceptTap(r)
       \/ WriteFind(r)
       \/ WriteSave(r)
       \/ WriteDel(r)
       \/ WriteFlushKeys(r)
  \/ Elapse

SpecStale == InitStale /\ [][NextStale]_vars

----------------------------------------------------------------------------
(* The arithmetic utilities, called on their own                           *)
(* An operand is a number, counted in thousandths, or a value that         *)
(* parseFloat does not parse; a result is a number in thousandths          *)

MaxThousandths == 15

\* thousandths in a cent, the unit of the factor Math.pow(10, decimals)
CentSize == 10
\* thousandths in 1
Unit == 1000
\* the divisor of a percentage
Hundred == 100

Num(n) == [nan |-> FALSE, n |-> n]
NaN == [nan |-> TRUE, n |-> 0]
isNaN(v) == v.nan

\* Math.round(n / d) for d > 0: the nearest integer, a tie going up
MathRound(n, d) == (2 * n + d) \div (2 * d)

\* toPreciseDecimal(value) of a number of n / d thousandths
toPreciseDecimalOf(n, d) == CentSize * MathRound(n, d * CentSize)

\* toPreciseDecimal
toPreciseDecimal(value) ==
  IF isNaN(value) THEN 0 ELSE toPreciseDecimalOf(value.n, 1)

\* the reduce of safeAdd: an addend that is not a number adds 0
RECURSIVE SumOf(_)
SumOf(values) ==
  IF values = <<>> THEN 0
  ELSE (IF isNaN(Head(values)) THEN 0 ELSE Head(values).n) + SumOf(Tail(values))

\* what a call of an arithmetic utility returns
Evaluate(fn, args) ==
  CASE fn = "toPreciseDecimal" -> toPreciseDecimal(args[1])
    [] fn = "safeAdd" -> toPreciseDecimalOf(SumOf(args), 1)
    [] fn = "safeSubtract" ->
         IF isNaN(args[1]) \/ isNaN(args[2]) THEN 0
         ELSE toPreciseDecimalOf(args[1].n - args[2].n, 1)
    [] fn = "safeMultiply" ->
         IF isNaN(args[1]) \/ isNaN(args[2]) THEN 0
         ELSE toPreciseDecimalOf(args[1].n * args[2].n, Unit)
    [] fn = "safeDivide" ->
         IF isNaN(args[1]) \/ isNaN(args[2]) \/ args[2].n = 0 THEN 0
         ELSE IF args[2].n > 0
              THEN toPreciseDecimalOf(Unit * args[1].n, args[2].n)
              ELSE toPreciseDecimalOf(- Unit * args[1].n, - args[2].n)
    [] fn = "calculatePercentage" ->
         IF isNaN(args[1]) \/ isNaN(args[2]) THEN 0
         ELSE toPreciseDecimalOf(args[1].n * args[2].n, Unit * Hundred)

\* toPreciseDecimal(10.555), the value of the unit test
TestValue == 10555

Operands ==
  {Num(n) : n \in (-MaxThousandths)..MaxThousandths} \cup {Num(TestValue), Num(-TestValue), NaN}

Addends == {Num(-CentSize), Num(CentSize), Num(2 * CentSize), NaN}

BinaryUtilities == {"safeAdd", "safeSubtract", "safeMultiply", "safeDivide", "calculatePercentage"}

\* a utility is called
Invoke(fn, args) ==
  /\ call = NoCall
  /\ call' = [fn |-> fn, args |-> args, returned |-> FALSE, result |-> 0]
  /\ UNCHANGED <<products, cartItems, cache, connected, redisErrors, quantityCheck, now, blobs,
                 req, clock, lineClock, started, ackedUpdate, ackedCreate, totalAdded,
                 overlapped>>

\* the call returns
Return ==
  /\ call.fn # "none"
  /\ ~call.returned
  /\ call' = [call EXCEPT !.returned = TRUE, !.result = Evaluate(call.fn, call.args)]
  /\ UNCHANGED <<products, cartItems, cache, connected, redisErrors, quantityCheck, now, blobs,
                 req, clock, lineClock, started, ackedUpdate, ackedCreate, totalAdded,
                 overlapped>>

InitArithmetic ==
  StartUp([i \in {} |-> Row("p1", 1000, 1, Null, 1)], NoLines, 0, {})

NextArithmetic ==
  \/ \E a \in Operands : Invoke("toPreciseDecimal", <<a>>)
  \/ \E fn \in BinaryUtilities, a \in Operands, b \in Operands : Invoke(fn, <<a, b>>)
  \/ \E a \in Addends, b \in Addends, c \in Addends : Invoke("safeAdd", <<a, b, c>>)
  \/ Return

SpecArithmetic == InitArithmetic /\ [][NextArithmetic]_vars

----------------------------------------------------------------------------
(* The cache keys of two requests                                          *)
(* A query is the sequence of its <<name, value>> pairs in the order in     *)
(* which they appear in the request                                        *)

MaxQueryParameters == 2

QueryNames == {"page", "limit"}
QueryValues == {"1", "2"}
KeyPaths == {<<"products">>, <<"products", "p1">>, <<"products", "p2">>}
KeyMethods == {"GET", "HEAD"}

\* the parsed query strings: no name appears twice
Queries ==
  {q \in UNION {[1..n -> QueryNames \X QueryValues] : n \in 0..MaxQueryParameters} :
     \A i \in DOMAIN q, j \in DOMAIN q : q[i][1] = q[j][1] => i = j}

\* the request object the interceptor reads: url carries the query string
\* as it was sent, params are the route parameters
KeyRequest(method, path, query) ==
  [method |-> method,
   path |-> path,
   url |-> <<path, query>>,
   query |-> query,
   params |-> IF Len(path) > 1 THEN << <<"id", path[2]>> >> ELSE <<>>]

KeyRequests ==
  {KeyRequest(m, path, q) : m \in KeyMethods, path \in KeyPaths, q \in Queries}

\* the keyPrefix of the @Cache decorator of the route
keyPrefix(request) == IF Len(request.path) > 1 THEN "product" ELSE "products_list"

\* the interceptor derives the key of each of the two requests
DeriveKeys ==
  /\ call.fn = "generateCacheKey"
  /\ ~call.returned
  /\ call' = [call EXCEPT
       !.returned = TRUE,
       !.result = [i \in 1..Len(call.args) |->
                     generateCacheKey(keyPrefix(call.args[i]), call.args[i].method,
                                      call.args[i].url, call.args[i].query,
                                      call.args[i].params)]]
  /\ UNCHANGED <<products, cartItems, cache, connected, redisErrors, quantityCheck, now, blobs,
                 req, clock, lineClock, started, ackedUpdate, ackedCreate, totalAdded,
                 overlapped>>

NextKeys ==
  \/ \E a \in KeyRequests, b \in KeyRequests : Invoke("generateCacheKey", <<a, b>>)
  \/ DeriveKeys

SpecKeys == InitArithmetic /\ [][NextKeys]_vars

----------------------------------------------------------------------------
(* Product writes on ids with and without a row                            *)

MaxMissingRequests == 2

\* p3 has no row; p1, which has an image, has none once it is removed
MissingIds == {"p1", "p3"}

NextMissing ==
  \E r \in Reqs :
    \/ \E id \in MissingIds, dto \in ImageUpdateDtos : BeginUpdate(r, id, dto, MaxMissingRequests)
    \/ \E id \in MissingIds : BeginRemove(r, id, MaxMissingRequests)
    \/ \E id \in MissingIds :
         BeginApplyDiscount(r, id, [NoDto EXCEPT !.discount_percentage = 5000], MaxMissingRequests)
    \/ \E id \in MissingIds : BeginRemoveDiscount(r, id, MaxMissingRequests)
    \/ \E id \in MissingIds : BeginFindOne(r, id, MaxMissingRequests)
    \/ WriteFind(r)
    \/ S3Delete(r)
    \/ S3Upload(r)
    \/ WriteSave(r)
    \/ WriteRemove(r)
    \/ WriteDel(r)
    \/ WriteFlushKeys(r)
    \/ Intercept(r)
    \/ FindOneCacheGet(r)
    \/ FindOneDbRead(r)
    \/ FindOneCacheSet(r)
    \/ InterceptTap(r)

SpecMissing == InitImages /\ [][NextMissing]_vars

----------------------------------------------------------------------------
(* RedisThrottlerStorageService: the counters of the rate limiter          *)
(* A counter is an entry of the cache whose value is its count; TTL 0 is a  *)
(* key without expiry.  Time is not counted here: a key with a TTL may be   *)
(* evicted at any moment and TTL replies the TTL the key was given          *)

MaxThrottleRequests == 3

\* the ttl of the 'short' throttler, as the guard passes it
THROTTLE_TTL == 60000
\* timeToExpire is reported in milliseconds
Milliseconds == 1000
\* replies of the TTL command: the key has no expiry, the key does not exist
NoExpiryReply == -1
NoKeyReply == -2

ThrottleKeys == {"k1", "k2"}

\* `throttle:${key}`
ThrottleKey(key) == <<"throttle", key>>

\* the fallback result
Fallback == [totalHits |-> 1, timeToExpire |-> THROTTLE_TTL * Milliseconds]

BeginThrottle(r, key, max) ==
  /\ CanBegin(r, max)
  /\ Accept(r, [Idle EXCEPT !.op = "throttle", !.id = key, !.pc = "thr_incr"])
  /\ UNCHANGED <<products, cartItems, cache, connected, redisErrors, quantityCheck, call, now, blobs,
                 clock, lineClock, ackedUpdate, ackedCreate, totalAdded>>

\* every first hit and every later hit is followed by expire
ThrottleIncrAlwaysExpires(r) ==
  /\ req[r].op = "throttle"
  /\ req[r].pc = "thr_incr"
  /\ IF ~connected
     THEN /\ req' = [req EXCEPT ![r] = [req[r] EXCEPT !.pc = "done", !.status = "ok",
                                                       !.body = Fallback]]
          /\ cache' = cache
     ELSE \E o \in Outcomes :
            LET k == ThrottleKey(req[r].id)
                result == IF k \in DOMAIN cache THEN cache[k].value + 1 ELSE 1
            IN IF o = "ok"
               THEN /\ cache' = [x \in DOMAIN cache \cup {k} |->
                                   IF x # k THEN cache[x]
                                   ELSE Entry(result, IF k \in DOMAIN cache THEN cache[k].ttl ELSE 0)]
                    /\ req' = [req EXCEPT ![r] =
                         [req[r] EXCEPT !.body = [totalHits |-> result, timeToExpire |-> 0],
                                        !.pc = "thr_expire"]]
               ELSE /\ cache' = cache
                    /\ req' = [req EXCEPT ![r] =
                         [req[r] EXCEPT !.body = [totalHits |-> 0, timeToExpire |-> 0],
                                        !.pc = "thr_ttl"]]
  /\ UNCHANGED <<products, cartItems, connected, redisErrors, quantityCheck, call, now, blobs, clock,
                 lineClock, started, ackedUpdate, ackedCreate, totalAdded, overlapped>>

\* RedisThrottlerStorageService.increment up to RedisService.increment's
\* client.incr: the fallback when the client is closed; INCR creates the key
\* without expiry and keeps the expiry of a key that exists; a failed INCR
\* makes RedisService.increment return null (totalHits 0 here)
ThrottleIncr(r) ==
  /\ req[r].op = "throttle"
  /\ req[r].pc = "thr_incr"
  /\ IF ~connected
     THEN /\ req' = [req EXCEPT ![r] = [req[r] EXCEPT !.pc = "done", !.status = "ok",
                                                       !.body = Fallback]]
          /\ cache' = cache
     ELSE \E o \in Outcomes :
            LET k == ThrottleKey(req[r].id)
                result == IF k \in DOMAIN cache THEN cache[k].value + 1 ELSE 1
            IN IF o = "ok"
               THEN /\ cache' = [x \in DOMAIN cache \cup {k} |->
                                   IF x # k THEN cache[x]
                                   ELSE Entry(result, IF k \in DOMAIN cache THEN cache[k].ttl ELSE 0)]
                    /\ req' = [req EXCEPT ![r] =
                         [req[r] EXCEPT !.body = [totalHits |-> result, timeToExpire |-> 0],
                                        !.pc = IF result = 1 THEN "thr_expire" ELSE "thr_ttl"]]
               ELSE /\ cache' = cache
                    /\ req' = [req EXCEPT ![r] =
                         [req[r] EXCEPT !.body = [totalHits |-> 0, timeToExpire |-> 0],
                                        !.pc = "thr_ttl"]]
  /\ UNCHANGED <<products, cartItems, connected, redisErrors, quantityCheck, call, now, blobs, clock,
                 lineClock, started, ackedUpdate, ackedCreate, totalAdded, overlapped>>

\* RedisService.increment: client.expire(key, ttlSeconds) after a result of
\* 1; when it fails the catch returns null although the key was incremented
ThrottleExpire(r) ==
  /\ req[r].op = "throttle"
  /\ req[r].pc = "thr_expire"
  /\ \E o \in Outcomes :
       LET k == ThrottleKey(req[r].id)
       IN IF connected /\ o = "ok"
          THEN /\ cache' = [x \in DOMAIN cache |->
                              IF x = k THEN Entry(cache[x].value, THROTTLE_TTL) ELSE cache[x]]
               /\ req' = [req EXCEPT ![r].pc = "thr_ttl"]
          ELSE /\ cache' = cache
               /\ req' = [req EXCEPT ![r] =
                    [req[r] EXCEPT !.body = [totalHits |-> 0, timeToExpire |-> 0],
                                   !.pc = "thr_ttl"]]
  /\ UNCHANGED <<products, cartItems, connected, redisErrors, quantityCheck, call, now, blobs, clock,
                 lineClock, started, ackedUpdate, ackedCreate, totalAdded, overlapped>>

\* RedisService.getTtl, then the result: totalHits || 1 and
\* (timeToExpire || ttl) * 1000, where a null and a 0 are falsy
ThrottleTtl(r) ==
  /\ req[r].op = "throttle"
  /\ req[r].pc = "thr_ttl"
  /\ \E o \in Outcomes :
       LET k == ThrottleKey(req[r].id)
           reply == IF ~connected \/ o = "error" THEN 0
                    ELSE IF k \notin DOMAIN cache THEN NoKeyReply
                    ELSE IF cache[k].ttl = 0 THEN NoExpiryReply
                    ELSE cache[k].ttl
           totalHits == IF req[r].body.totalHits = 0 THEN 1 ELSE req[r].body.totalHits
           timeToExpire == (IF reply = 0 THEN THROTTLE_TTL ELSE reply) * Milliseconds
       IN req' = [req EXCEPT ![r] =
            [req[r] EXCEPT !.pc = "done", !.status = "ok",
                           !.body = [totalHits |-> totalHits, timeToExpire |-> timeToExpire]]]
  /\ UNCHANGED <<products, cartItems, cache, connected, redisErrors, quantityCheck, call, now, blobs,
                 clock, lineClock, started, ackedUpdate, ackedCreate, totalAdded, overlapped>>

InitThrottle ==
  \E open \in BOOLEAN, errors \in BOOLEAN :
    StartUpOn([i \in {} |-> Row("p1", 1000, 1, Null, 1)], NoLines, 0, {}, open, errors)

NextThrottle ==
  \/ \E r \in Reqs :
       \/ \E key \in ThrottleKeys : BeginThrottle(r, key, MaxThrottleRequests)
       \/ ThrottleIncr(r)
       \/ ThrottleExpire(r)
       \/ ThrottleTtl(r)
  \/ Evict
  \/ RedisSwitch

SpecThrottle == InitThrottle /\ [][NextThrottle]_vars

----------------------------------------------------------------------------
(* The cart next to updates of the stock of a product                      *)

MaxStockRequests == 3

\* an update that lowers the stock of p1 from 3 to 1
StockUpdateDto == [NoDto EXCEPT !.stock_quantity = 1]

NextStock ==
  \E r \in Reqs :
    \/ \E pid \in {"p1", "p2"}, q \in {QScale, 2 * QScale} :
         BeginAddToCart(r, pid, q, MaxStockRequests)
    \/ \E lid \in RemoveLineIds : BeginRemoveFromCart(r, lid, MaxStockRequests)
    \/ BeginClearCart(r, MaxStockRequests)
    \/ BeginGetCart(r, MaxStockRequests)
    \/ BeginUpdate(r, "p1", StockUpdateDto, MaxStockRequests)
    \/ CartStep(r)
    \/ GetCartFind(r)
    \/ WriteFind(r)
    \/ WriteSave(r)
    \/ WriteDel(r)
    \/ WriteFlushKeys(r)

SpecStock == Init /\ [][NextStock]_vars

----------------------------------------------------------------------------
(* The whole service: product and cart requests together                   *)

Next ==
  \/ \E r \in Reqs :
       \/ BeginProduct(r, MaxRequests)
       \/ BeginCart(r, MaxRequests)
       \/ ProductStep(r)
       \/ CartStep(r)
  \/ Evict

Spec == Init /\ [][Next]_vars

----------------------------------------------------------------------------
(* Cache consistency after writes                                          *)

\* a GET /products/:id that began after an update of that product was
\* acknowledged, with no write of the product begun since
ReadAfterUpdate(r) ==
  /\ req[r].op = "findOne"
  /\ req[r].after
  /\ req[r].status # "pending"

\* C1: with Redis available, a get of a product that follows an acknowledged
\* update of it returns the projection of the updated row, never an older one
C1_GetAfterUpdateIsFresh ==
  \A r \in Reqs :
    ReadAfterUpdate(r) =>
      /\ req[r].status = "ok"
      /\ req[r].body = fromProduct(products[req[r].id])

\* no read of the product is between its cache lookup and its cache write
NoReadInFlight(id) ==
  \A r \in Reqs : ~(InFlight(r) /\ req[r].op = "findOne" /\ req[r].id = id)

\* C2: once an update is acknowledged and the reads that overlapped it have
\* finished, the entry under `product:<id>` (the key the update deletes) is
\* absent or holds the projection of the updated row
C2_NoStaleEntryAfterInvalidation ==
  \A id \in ackedUpdate :
    NoReadInFlight(id) /\ connected /\ ProductCacheKey(id) \in DOMAIN cache =>
      cache[ProductCacheKey(id)].value = fromProduct(products[id])

\* C4: a GET /products that began after a create was acknowledged, with no
\* product write begun since, returns the list that includes the created row
C4_ListAfterCreateIsFresh ==
  \A r \in Reqs :
    req[r].op = "findAll" /\ req[r].after /\ req[r].status # "pending" =>
      req[r].body = findAll(products)

----------------------------------------------------------------------------
(* Invalidate-then-respond ordering                                        *)

InvalidatingWrites ==
  {"update", "remove", "applyDiscount", "removeDiscount"} \cup CartWrites

\* what a write has to do, in order: the store write, the delete of the
\* entity's exact key and, for a product, the bulk delete of the list pattern
Invalidation(rec) ==
  IF rec.op \in CartWrites
  THEN << <<"write">>, <<"del", CART_CACHE_KEY>> >>
  ELSE << <<"write">>, <<"del", ProductCacheKey(rec.id)>>, <<"flush", LIST_PATTERN>> >>

IsPrefix(a, b) == Len(a) <= Len(b) /\ a = SubSeq(b, 1, Len(a))

\* C3: in update, remove, applyDiscount, removeDiscount, addToCart,
\* removeFromCart and clearCart the store write comes first, then the delete of
\* the exact key, then (products) the flush of the list pattern; a handler that
\* has written and finished, or that answered success, has issued all of them
C3_InvalidateAfterWriteBeforeReturn ==
  \A r \in Reqs :
    req[r].op \in InvalidatingWrites =>
      /\ IsPrefix(req[r].events, Invalidation(req[r]))
      /\ req[r].status = "ok" => req[r].events = Invalidation(req[r])
      /\ req[r].pc = "done" /\ req[r].events # <<>> =>
           req[r].events = Invalidation(req[r])

\* a product update and a cart add have both returned success
C3_Witness ==
  \E r1, r2 \in Reqs :
    /\ req[r1].op = "update" /\ req[r1].status = "ok"
    /\ req[r2].op = "addToCart" /\ req[r2].status = "ok"

----------------------------------------------------------------------------
(* Cart lines                                                              *)

\* the step in which the add of request r is saved
AddSaved(r) ==
  /\ req[r].op = "addToCart"
  /\ req[r].pc = "save"
  /\ req'[r].pc = "del"

\* C5: as long as no two requests have overlapped, there is at most one line
\* per product, and a saved add of quantity q leaves the product with exactly
\* one line whose quantity is what the cart held of it before plus q
C5_SequentialAddsMerge ==
  [][~overlapped' =>
       /\ \A pid \in ProductIds : Cardinality(LinesOf(cartItems', pid)) <= 1
       /\ \A r \in Reqs :
            AddSaved(r) =>
              /\ Cardinality(LinesOf(cartItems', req[r].id)) = 1
              /\ QuantityOf(cartItems', req[r].id) =
                   QuantityOf(cartItems, req[r].id) + req[r].dto.quantity]_vars

\* two sequential adds of one product, of quantities 1 and 2, are one line of 3
C5_Witness ==
  /\ ~overlapped
  /\ started = 2
  /\ \A r \in Reqs : ~InFlight(r)
  /\ totalAdded["p1"] = 3 * QScale
  /\ Cardinality(LinesOf(cartItems, "p1")) = 1
  /\ QuantityOf(cartItems, "p1") = 3 * QScale

\* C6: at most one cart line per product id at any time, overlapping adds
\* included
C6_AtMostOneLinePerProduct ==
  \A pid \in ProductIds : Cardinality(LinesOf(cartItems, pid)) <= 1

\* C7: the quantity the cart holds of a product never exceeds the sum of the
\* quantities of the adds of it that were saved
C7_AddsNeverOvercount ==
  \A pid \in ProductIds : QuantityOf(cartItems, pid) <= totalAdded[pid]

\* the lost update: two adds that both merged into the same line have returned,
\* nothing was removed, and the line holds less than the sum of the saved adds:
\* the earlier quantity plus one of the two requested quantities
C7_Witness ==
  \E r1, r2 \in Reqs, l \in DOMAIN cartItems :
    /\ r1 # r2
    /\ req[r1].op = "addToCart" /\ req[r1].status = "ok" /\ req[r1].body.id = l
    /\ req[r2].op = "addToCart" /\ req[r2].status = "ok" /\ req[r2].body.id = l
    /\ LinesOf(cartItems, req[r1].id) = {l}
    /\ lineClock = 1
    /\ cartItems[l].quantity = req[r1].body.quantity
    /\ req[r1].body.quantity = req[r2].body.quantity
    /\ cartItems[l].quantity = totalAdded[req[r1].id] - req[r2].dto.quantity
    /\ cartItems[l].quantity < totalAdded[req[r1].id]

\* C8: an add whose quantity exceeds the stock, or whose quantity plus that of
\* the line it merges into exceeds the stock, answers BadRequest; a step that
\* rejects an add leaves the cart lines as they were
C8_OverStockRejected ==
  [][\A r \in Reqs :
       req[r].op = "addToCart" =>
         /\ (/\ req[r].pc = "find"
             /\ req'[r].pc # "find"
             /\ req[r].id \in DOMAIN products
             /\ products[req[r].id].stock_quantity * QScale < req[r].dto.quantity)
              => (req'[r].status = "BadRequest" /\ cartItems' = cartItems)
         /\ (/\ req[r].pc = "lookup"
             /\ req'[r].pc # "lookup"
             /\ LinesOf(cartItems, req[r].id) # {}
             /\ \A l \in LinesOf(cartItems, req[r].id) :
                  req[r].product.stock_quantity * QScale
                    < cartItems[l].quantity + req[r].dto.quantity)
              => (req'[r].status = "BadRequest" /\ cartItems' = cartItems)
         /\ (req[r].status = "pending" /\ req'[r].status = "BadRequest")
              => cartItems' = cartItems]_vars

\* an add that fits the stock on its own was rejected because of the line the
\* cart already holds, and that line is still what it was
C8_Witness ==
  \E r \in Reqs :
    /\ req[r].op = "addToCart"
    /\ req[r].status = "BadRequest"
    /\ req[r].id \in DOMAIN products
    /\ IsPositiveInteger(req[r].dto.quantity)
    /\ ~InsufficientStock(products[req[r].id], req[r].dto.quantity)
    /\ QuantityOf(cartItems, req[r].id) = totalAdded[req[r].id]
    /\ QuantityOf(cartItems, req[r].id) > 0

\* C9: an add of a known product whose quantity is not a positive integer
\* ends in BadRequest, and every stored cart line has an integer quantity >= 1
C9_OnlyPositiveIntegerQuantities ==
  /\ \A r \in Reqs :
       (/\ req[r].op = "addToCart"
        /\ req[r].id \in DOMAIN products
        /\ ~IsPositiveInteger(req[r].dto.quantity)
        /\ req[r].pc = "done")
         => req[r].status = "BadRequest"
  /\ \A l \in DOMAIN cartItems : IsPositiveInteger(cartItems[l].quantity)

\* C10: an add whose product id is not in the store, and a removal whose line
\* id is not in the cart, answer NotFound and leave the cart lines unchanged;
\* no cart line ever refers to a product the store never held
C10_MissingIsNotFound ==
  [][/\ \A r \in Reqs :
          (/\ req[r].pc = "find"
           /\ req'[r].pc # "find"
           /\ \/ req[r].op = "addToCart" /\ req[r].id \notin DOMAIN products
              \/ req[r].op = "removeFromCart" /\ req[r].id \notin DOMAIN cartItems)
            => (req'[r].status = "NotFound" /\ cartItems' = cartItems)
     /\ \A l \in DOMAIN cartItems' : cartItems'[l].product_id # UnknownId]_vars

\* an add of an unknown product and a removal of an unknown line have both
\* been answered NotFound
C10_Witness ==
  \E r1, r2 \in Reqs :
    /\ req[r1].op = "addToCart" /\ req[r1].id = UnknownId
    /\ req[r1].status = "NotFound"
    /\ req[r2].op = "removeFromCart" /\ req[r2].id \notin DOMAIN cartItems
    /\ req[r2].status = "NotFound"

\* C11: clearCart never ends in an error; its clear step leaves the cart
\* without lines whatever it held, and when nothing ran beside it the cart is
\* still empty when it returns success
C11_ClearCartAlwaysSucceeds ==
  [][\A r \in Reqs :
       /\ req'[r].op = "clearCart" => req'[r].status \in {"pending", "ok"}
       /\ (req[r].op = "clearCart" /\ req[r].pc = "clear" /\ req'[r].pc # "clear")
            => (DOMAIN cartItems' = {} /\ req'[r].pc = "del")
       /\ (req[r].op = "clearCart" /\ req[r].pc = "del" /\ req'[r].pc = "done"
             /\ ~overlapped)
            => (DOMAIN cartItems' = {} /\ req'[r].status = "ok")]_vars

\* a clear of a cart that held a line has returned success, and the cart is empty
C11_Witness ==
  /\ \E r \in Reqs : req[r].op = "clearCart" /\ req[r].status = "ok"
  /\ \E pid \in ProductIds : totalAdded[pid] > 0
  /\ ~overlapped
  /\ started = 2
  /\ DOMAIN cartItems = {}

----------------------------------------------------------------------------
(* Cart totals                                                             *)

\* the five equalities between the totals and the lines of a getCart response
\* (quantities count 1/QScale of a unit, amounts are cents)
TotalsConsistent(b) ==
  LET n == Len(b.items)
  IN /\ b.totalPrice = sumArray([i \in 1..n |-> b.items[i].lineTotal])
     /\ b.totalOriginalPrice * QScale =
          sumArray([i \in 1..n |-> b.items[i].quantity * b.items[i].product.originalPrice])
     /\ b.totalSavings = b.totalOriginalPrice - b.totalPrice
     /\ b.totalItems = sumArray([i \in 1..n |-> b.items[i].quantity])
     /\ b.uniqueProducts = n
     /\ n = Cardinality(DOMAIN cartItems)

\* C12: every getCart response has totalPrice = sum of lineTotal,
\* totalOriginalPrice = sum of quantity x originalPrice, totalSavings =
\* totalOriginalPrice - totalPrice, totalItems = sum of quantities and
\* uniqueProducts = number of lines
C12_TotalsAreConsistent ==
  \A r \in Reqs :
    req[r].op = "getCart" /\ req[r].status = "ok" => TotalsConsistent(req[r].body)

\* the same equalities on the carts whose quantities are all whole
TotalsConsistentOnWholeQuantities ==
  \A r \in Reqs :
    (/\ req[r].op = "getCart"
     /\ req[r].status = "ok"
     /\ \A l \in DOMAIN cartItems : IsPositiveInteger(cartItems[l].quantity))
      => TotalsConsistent(req[r].body)

----------------------------------------------------------------------------
(* Derived pricing fields                                                  *)

\* a read of product id that has been answered with its projection
Answered(r) == req[r].op = "findOne" /\ req[r].status = "ok"

\* C13: isDiscountActive is false when discount_percentage is absent or <= 0
\* whatever the dates; otherwise it is true exactly when the start is absent
\* or <= now and the end is absent or >= now, both bounds included
C13_ActiveWindowIsInclusive ==
  \A r \in Reqs :
    Answered(r) =>
      LET p == products[req[r].id]
          absent == p.discount_percentage \in {Null, Undefined}
      IN IF absent \/ p.discount_percentage <= 0
         THEN req[r].body.isDiscountActive = FALSE
         ELSE req[r].body.isDiscountActive =
                (/\ p.discount_start_date \in {Null, Undefined} \/ p.discount_start_date <= now
                 /\ p.discount_end_date \in {Null, Undefined} \/ p.discount_end_date >= now)

\* a read at the instant that is both the start and the end of the window
C13_Witness ==
  \E r \in Reqs :
    /\ Answered(r)
    /\ req[r].body.isDiscountActive
    /\ products[req[r].id].discount_start_date = now
    /\ products[req[r].id].discount_end_date = now

\* C14: effectivePrice + discountAmount = price in cents whenever the discount
\* is active; effectivePrice = price and discountAmount = 0 when it is not
C14_PriceSplitsExactly ==
  \A r \in Reqs :
    Answered(r) =>
      LET b == req[r].body
      IN /\ b.isDiscountActive => b.effectivePrice + b.discountAmount = b.originalPrice
         /\ ~b.isDiscountActive => b.effectivePrice = b.originalPrice /\ b.discountAmount = 0

\* an active discount whose amount falls on half a cent
C14_Witness ==
  \E r \in Reqs :
    /\ Answered(r)
    /\ req[r].body.isDiscountActive
    /\ req[r].body.discountAmount > 0
    /\ (2 * req[r].body.originalPrice * products[req[r].id].discount_percentage) % FullPercent = 0
    /\ (req[r].body.originalPrice * products[req[r].id].discount_percentage) % FullPercent # 0

\* C15: when the discount is active, discountAmount is price x percentage / 100
\* rounded to the cent, half away from zero, and effectivePrice is price minus
\* that rounded amount
C15_DiscountRoundedFirst ==
  \A r \in Reqs :
    (Answered(r) /\ req[r].body.isDiscountActive) =>
      LET p == products[req[r].id]
          rounded == RoundDiv(p.price * p.discount_percentage, FullPercent)
      IN /\ req[r].body.discountAmount = rounded
         /\ req[r].body.effectivePrice = p.price - rounded

\* C16: the isDiscountActive, effectivePrice and discountAmount of an answer
\* are those of the product at the time the read is answered, also when the
\* product was read and cached before its window opened or closed
C16_DerivedFieldsFollowTheClock ==
  [][\A r \in Reqs :
       (/\ req[r].status = "pending"
        /\ req'[r].op = "findOne"
        /\ req'[r].status = "ok")
         => LET p == products[req'[r].id]
                b == req'[r].body
            IN /\ b.isDiscountActive = isDiscountActive(p)
               /\ b.effectivePrice = effectivePrice(p)
               /\ b.discountAmount = discountAmount(p)]_vars

----------------------------------------------------------------------------
(* Discount writes                                                         *)

NoDiscountStored(row) ==
  /\ row.discount_percentage = Null
  /\ row.discount_start_date = Null
  /\ row.discount_end_date = Null

\* C17: removeDiscount on an existing product never fails; its save leaves the
\* product without percentage, start and end, hence not active and priced at
\* its price; a second call in a row leaves the store as the first left it, and
\* both answer isDiscountActive false with effectivePrice = price
C17_RemoveDiscountIsIdempotent ==
  [][\A r \in Reqs :
       /\ (req'[r].op = "removeDiscount" /\ req'[r].id \in DOMAIN products')
            => req'[r].status \in {"pending", "ok"}
       /\ (req[r].op = "removeDiscount" /\ req[r].pc = "save" /\ req'[r].pc # "save")
            => /\ NoDiscountStored(products'[req[r].id])
               /\ ~isDiscountActive(products'[req[r].id])
               /\ effectivePrice(products'[req[r].id]) = products'[req[r].id].price
               /\ (NoDiscountStored(products[req[r].id]) /\ ~overlapped)
                    => products' = products
       /\ (req[r].op = "removeDiscount" /\ req[r].status = "pending" /\ req'[r].status = "ok")
            => /\ req'[r].body.isDiscountActive = FALSE
               /\ req'[r].body.effectivePrice = req'[r].body.originalPrice
               /\ req'[r].body.discountAmount = 0]_vars

\* two calls in a row have both returned
C17_Witness ==
  /\ started = 2
  /\ ~overlapped
  /\ \E r \in Reqs : req[r].op = "removeDiscount" /\ req[r].pc = "done" /\ req[r].status = "ok"
  /\ NoDiscountStored(products["p1"])

\* the percentage lies outside [0, 100], or both dates are given and the end
\* is not after the start
OutsideDiscountContract(dto) ==
  \/ dto.discount_percentage < 0
  \/ dto.discount_percentage > FullPercent
  \/ /\ dto.discount_start_date # Undefined
     /\ dto.discount_end_date # Undefined
     /\ dto.discount_end_date <= dto.discount_start_date

\* C18: applyDiscount on an existing product ends in BadRequest exactly when
\* the percentage is outside [0, 100] or both dates are given with the end not
\* after the start; a rejection leaves the stored products and the cache as
\* they were
C18_ApplyDiscountRejectedExactly ==
  [][\A r \in Reqs :
       (/\ req'[r].op = "applyDiscount"
        /\ req'[r].pc = "done"
        /\ req'[r] # req[r]
        /\ req'[r].id \in DOMAIN products)
         => /\ req'[r].status = "BadRequest" <=> OutsideDiscountContract(req'[r].dto)
            /\ req'[r].status = "BadRequest" => (products' = products /\ cache' = cache)]_vars

\* C19: every stored product that has both a start and an end has the end
\* after the start, and its percentage, when set, lies in [0, 100]
C19_StoredDiscountsAreValid ==
  \A id \in DOMAIN products :
    LET p == products[id]
    IN /\ (~NoDate(p.discount_start_date) /\ ~NoDate(p.discount_end_date))
            => p.discount_end_date > p.discount_start_date
       /\ p.discount_percentage \notin {Null, Undefined}
            => (p.discount_percentage >= 0 /\ p.discount_percentage <= FullPercent)

----------------------------------------------------------------------------
(* Product images                                                          *)

\* an update whose upload fails ends in BadRequest with the product row as it
\* was and the object its image_url names still in the bucket
UploadFailureKeepsImage ==
  [][\A r \in Reqs :
       (/\ req[r].op = "update"
        /\ req[r].pc = "s3_upload"
        /\ req'[r].pc = "done"
        /\ ~overlapped)
         => /\ req'[r].status = "BadRequest"
            /\ products' = products
            /\ Truthy(products'[req[r].id].image_url)
                 => products'[req[r].id].image_url \in blobs']_vars

\* C20: an update with a replacement image deletes the previous object only
\* once the new one is uploaded, so an update whose upload fails ends in
\* failure with the product row unchanged and its image still in the bucket
C20_UploadBeforeDelete ==
  [][\A r \in Reqs :
       /\ (/\ req[r].op = "update"
           /\ req[r].pc = "s3_delete"
           /\ req'[r].pc # "s3_delete")
            => req[r].dto.image \in blobs
       /\ (/\ req[r].op = "update"
           /\ req[r].pc = "s3_upload"
           /\ req'[r].pc = "done"
           /\ ~overlapped)
            => /\ req'[r].status = "BadRequest"
               /\ products' = products
               /\ Truthy(products'[req[r].id].image_url)
                    => products'[req[r].id].image_url \in blobs']_vars

\* a remove whose record removal fails leaves the product stored and the
\* object its image_url names in the bucket
RemoveFailureKeepsImage ==
  [][\A r \in Reqs :
       (/\ req[r].op = "remove"
        /\ req[r].pc = "remove"
        /\ req'[r].status # "pending")
         => /\ req[r].id \in DOMAIN products'
            /\ Truthy(products'[req[r].id].image_url)
                 => products'[req[r].id].image_url \in blobs']_vars

\* C21: remove deletes the image only once the product row is removed, so a
\* remove whose record removal fails leaves the product stored with its image
\* in the bucket; a failing image delete does not fail the remove
C21_RemoveRecordBeforeBlob ==
  [][\A r \in Reqs :
       /\ (/\ req[r].op = "remove"
           /\ req[r].pc = "s3_delete"
           /\ req'[r].pc # "s3_delete")
            => /\ req[r].id \notin DOMAIN products
               /\ req'[r].status = "pending"
       /\ (/\ req[r].op = "remove"
           /\ req[r].pc = "remove"
           /\ req'[r].status # "pending")
            => /\ req[r].id \in DOMAIN products'
               /\ Truthy(products'[req[r].id].image_url)
                    => products'[req[r].id].image_url \in blobs']_vars

\* the store writes a request has made
Writes(rec) == Len(SelectSeq(rec.events, LAMBDA e : e = <<"write">>))

\* C22: a create whose image upload fails ends in failure without writing a
\* product row; a create whose upload succeeds writes the store exactly once
\* and the row it stores carries the locator the upload returned
C22_CreateUploadsBeforeWriting ==
  [][\A r \in Reqs :
       /\ (/\ req[r].op = "create"
           /\ req[r].pc = "s3_upload"
           /\ req'[r].pc = "done")
            => /\ req'[r].status = "BadRequest"
               /\ products' = products
               /\ Writes(req'[r]) = 0
       /\ (/\ req'[r].op = "create"
           /\ req'[r].dto.image # Undefined
           /\ req[r].status = "pending"
           /\ req'[r].status = "ok")
            => /\ Writes(req'[r]) = 1
               /\ Cardinality(DOMAIN products') = Cardinality(DOMAIN products) + 1
               /\ \A id \in DOMAIN products : products'[id] = products[id]
               /\ products'[req'[r].id].image_url = req[r].dto.image
               /\ req[r].dto.image \in blobs'
               /\ req'[r].body.image_url = req[r].dto.image]_vars

\* a create whose upload failed, then one whose upload succeeded: one new row
C22_Witness ==
  /\ started = 2
  /\ ~overlapped
  /\ Cardinality(DOMAIN products) = 2
  /\ \E r \in Reqs :
       /\ req[r].op = "create"
       /\ req[r].status = "ok"
       /\ req[r].dto.image = uuidv4 - 1
       /\ products[req[r].id].image_url \in blobs

----------------------------------------------------------------------------
(* Cache failures                                                          *)

\* the positions at which a handler or the interceptor calls the cache
CachePositions == {"intercept", "svc_cache", "svc_set", "tap", "del", "flush", "flush_del"}

\* C23: an operation whose store write or read succeeded is answered with
\* success and with the result the store dictates, whether its cache calls
\* succeed, are rejected or find the client closed; no cache call ends a
\* request in an error
C23_CacheFailuresNeverAbort ==
  [][\A r \in Reqs :
       LET old == req[r]
           new == req'[r]
           answered == old.status = "pending" /\ new.status # "pending"
       IN /\ (answered /\ Writes(new) >= 1)
               => /\ new.status = "ok"
                  /\ new.body =
                       CASE new.op = "addToCart" -> new.item
                         [] new.op \in {"removeFromCart", "clearCart", "remove"} -> NoBody
                         [] OTHER -> fromProduct(new.product)
          /\ (answered /\ old.op = "findOne" /\ old.pc = "svc_set")
               => (new.status = "ok" /\ new.body = fromProduct(old.product))
          /\ (answered /\ old.op = "findAll" /\ old.pc = "list_db")
               => (new.status = "ok" /\ new.body = findAll(products))
          /\ (answered /\ old.op = "getCart")
               => (new.status = "ok" /\ new.body = getCart(cartItems, products))
          /\ (old.status = "ok" /\ old.pc # "done")
               => (new.status = "ok" /\ new.body = old.body)
          /\ (old.pc \in CachePositions /\ new # old)
               => new.status \in {"pending", "ok"}]_vars

\* an update answered with success although its cache delete did not happen:
\* the key of the product still holds the projection cached before the update
C23_Witness ==
  /\ ~overlapped
  /\ \E r \in Reqs :
       /\ req[r].op = "update"
       /\ req[r].pc = "done"
       /\ req[r].status = "ok"
       /\ ProductCacheKey(req[r].id) \in DOMAIN cache
       /\ cache[ProductCacheKey(req[r].id)].value.originalPrice # products[req[r].id].price

\* C24: when the interceptor finds a value at the key of the request, the
\* request is answered with that value at once: the handler is not run, the
\* store is not read and nothing is written to the cache
C24_HitNeverRecomputes ==
  [][\A r \in Reqs :
       (/\ req[r].pc = "intercept"
        /\ req'[r].pc # "intercept"
        /\ connected
        /\ ~redisErrors
        /\ RouteKey(req[r]) \in DOMAIN cache)
         => /\ req'[r].pc = "done"
            /\ req'[r].status = "ok"
            /\ req'[r].body = cache[RouteKey(req[r])].value
            /\ req'[r].tap = FALSE
            /\ cache' = cache
            /\ products' = products]_vars

\* a read answered by the interceptor from the cache
C24_Witness ==
  \E r \in Reqs :
    /\ req[r].op \in {"findOne", "findAll"}
    /\ req[r].pc = "done"
    /\ req[r].status = "ok"
    /\ ~req[r].tap
    /\ RouteKey(req[r]) \in DOMAIN cache
    /\ req[r].body = cache[RouteKey(req[r])].value

\* where the handler of a cached route starts
HandlerEntry == {"svc_cache", "list_db"}

\* C25: when the Redis client is closed the interceptor makes no get and
\* attaches no set, the handler runs exactly once and its result is returned;
\* nothing in the cache changes and no cache error reaches the caller
C25_ClosedCacheIsBypassed ==
  [][\A r \in Reqs :
       /\ (req[r].pc = "intercept" /\ req'[r].pc # "intercept" /\ ~connected)
            => /\ req'[r].pc \in HandlerEntry
               /\ req'[r].tap = FALSE
               /\ req'[r].status = "pending"
       /\ (req'[r].pc \in HandlerEntry /\ req[r].pc # req'[r].pc)
            => req[r].pc = "intercept"
       /\ (req'[r].pc = "tap" /\ req[r].pc # "tap") => req[r].tap
       /\ (req[r].pc \in {"svc_cache", "svc_set", "list_db"}
             /\ ~req[r].tap /\ req'[r].status # "pending")
            => /\ req'[r].pc = "done"
               /\ req'[r].status \in {"ok", "NotFound"}
       /\ (~connected /\ req' # req) => cache' = cache]_vars

\* a list read answered by the handler while the client is closed
C25_Witness ==
  /\ ~connected
  /\ started = 1
  /\ DOMAIN cache = {}
  /\ \E r \in Reqs :
       /\ req[r].op = "findAll"
       /\ req[r].pc = "done"
       /\ req[r].status = "ok"
       /\ ~req[r].tap
       /\ req[r].body = findAll(products)

\* the TTL the @Cache decorator of the route configures
ConfiguredTtl(rec) == IF rec.op = "findOne" THEN PRODUCT_ROUTE_TTL ELSE LIST_ROUTE_TTL

C27_StalenessResolvesWithinTtl ==
  [][/\ \A k \in DOMAIN cache' :
          cache'[k].ttl > 0 /\ cache'[k].ttl <= PRODUCT_ROUTE_TTL
     /\ \A r \in Reqs :
          (/\ req[r].op = "findOne"
           /\ req[r].pc # "done"
           /\ req'[r].pc = "done"
           /\ req'[r].status = "ok"
           /\ now > PRODUCT_ROUTE_TTL)
            => req'[r].body = fromProduct(products[req[r].id])]_vars

\* C28: a product that a cart line refers to is never gone from the store
\* (its deletion is refused), so every cart line has its product and every
\* getCart that has ended has returned a result
C28_GetCartSurvivesProductDeletion ==
  /\ \A l \in DOMAIN cartItems : cartItems[l].product_id \in DOMAIN products
  /\ \A r \in Reqs :
       (req[r].op = "getCart" /\ req[r].pc = "done")
         => /\ req[r].status = "ok"
            /\ \A i \in 1..Len(req[r].body.items) :
                 req[r].body.items[i].product.id = req[r].body.items[i].product_id

\* the deletion of p1 was attempted (its image is gone) and refused, and the
\* cart with its line on p1 is priced
C28_Witness ==
  /\ blobs = {}
  /\ "p1" \in DOMAIN products
  /\ \E l \in DOMAIN cartItems : cartItems[l].product_id = "p1"
  /\ \E r \in Reqs :
       /\ req[r].op = "getCart"
       /\ req[r].pc = "done"
       /\ req[r].status = "ok"
       /\ req[r].body = getCart(cartItems, products)
       /\ Len(req[r].body.items) > 0

\* n / d rounded to a whole number, a tie going away from zero (d > 0)
RoundHalfAway(n, d) == IF n >= 0 THEN MathRound(n, d) ELSE - MathRound(- n, d)

Numeric(args) == \A i \in 1..Len(args) : ~isNaN(args[i])

\* C29: toPreciseDecimal, safeAdd, safeSubtract and safeMultiply of numbers
\* return the exact value rounded to the cent, a half cent going away from
\* zero for negative as for positive values
C29_RoundsHalfAwayFromZero ==
  (call.returned /\ Numeric(call.args)) =>
    /\ call.fn = "toPreciseDecimal"
         => call.result = CentSize * RoundHalfAway(call.args[1].n, CentSize)
    /\ call.fn = "safeAdd"
         => call.result = CentSize * RoundHalfAway(SumOf(call.args), CentSize)
    /\ call.fn = "safeSubtract"
         => call.result = CentSize * RoundHalfAway(call.args[1].n - call.args[2].n, CentSize)
    /\ call.fn = "safeMultiply"
         => call.result = CentSize * RoundHalfAway(call.args[1].n * call.args[2].n, Unit * CentSize)

\* the operands, one that is not a number replaced by the number zero
Zeroed(args) == [i \in 1..Len(args) |-> IF isNaN(args[i]) THEN Num(0) ELSE args[i]]

\* C30: a call with an operand that is not a number returns what the same
\* call returns with the number zero in its place
C30_UnparseableOperandIsZero ==
  call.returned => call.result = Evaluate(call.fn, Zeroed(call.args))

\* the parameters of a request as a set, their order forgotten
Parameters(pairs) == {pairs[i] : i \in DOMAIN pairs}

\* two requests with the same route, method, query parameters and route
\* parameters
SameShape(a, b) ==
  /\ a.method = b.method
  /\ a.path = b.path
  /\ Parameters(a.query) = Parameters(b.query)
  /\ Parameters(a.params) = Parameters(b.params)

\* C31: two requests derive the same key exactly when they have the same
\* route, method and parameters, whatever the order of the parameters
C31_KeyIgnoresParameterOrder ==
  (call.fn = "generateCacheKey" /\ call.returned) =>
    (SameShape(call.args[1], call.args[2]) <=> call.result[1] = call.result[2])

\* the half of C31 that holds: requests that differ derive different keys
DifferentRequestsDifferentKeys ==
  (call.fn = "generateCacheKey" /\ call.returned /\ ~SameShape(call.args[1], call.args[2]))
    => call.result[1] # call.result[2]

ProductMutations == {"update", "remove", "applyDiscount", "removeDiscount"}

\* C32: the lookup of an update, remove, applyDiscount or removeDiscount
\* whose id has no row ends the request with NotFound and changes neither
\* the store, the bucket nor the cache; NotFound is answered at the lookup
\* only, which is the first step, and such a request has performed no
\* write and no cache deletion
C32_MissingProductFailsBeforeEffects ==
  [][\A r \in Reqs :
       /\ (/\ req[r].op \in ProductMutations
           /\ req[r].pc = "find"
           /\ req'[r].pc # "find"
           /\ req[r].id \notin DOMAIN products)
            => /\ req'[r].pc = "done"
               /\ req'[r].status = "NotFound"
               /\ products' = products
               /\ blobs' = blobs
               /\ cache' = cache
       /\ (/\ req'[r].op \in ProductMutations
           /\ req'[r].status = "NotFound"
           /\ req[r].status # "NotFound")
            => (req[r].pc = "find" /\ req[r].events = <<>> /\ req'[r].events = <<>>)
       /\ (req'[r].op \in ProductMutations /\ req'[r].pc = "find" /\ req[r].pc # "find")
            => req[r].pc \in {"idle", "done"}]_vars

\* p1 was removed, and an update of p1 that carries a new image was answered
\* NotFound: the bucket and the store are as the removal left them
C32_Witness ==
  /\ "p1" \notin DOMAIN products
  /\ blobs = {}
  /\ \E r \in Reqs :
       /\ req[r].op = "update"
       /\ req[r].id = "p1"
       /\ req[r].dto.image # Undefined
       /\ req[r].pc = "done"
       /\ req[r].status = "NotFound"
       /\ req[r].events = <<>>

\* C33: the step at which a product read fails with NotFound writes nothing
\* to the cache and ends the request; when no other request has overlapped,
\* there is then no entry at the route key nor at the product key of the
\* request; and no entry of the cache ever holds a null
C33_FailedReadCachesNothing ==
  [][\A r \in Reqs :
       /\ (/\ req'[r].op = "findOne"
           /\ req'[r].status = "NotFound"
           /\ req[r].status # "NotFound")
            => /\ cache' = cache
               /\ req'[r].pc = "done"
               /\ ~overlapped =>
                    /\ RouteKey(req'[r]) \notin DOMAIN cache'
                    /\ ProductCacheKey(req'[r].id) \notin DOMAIN cache'
       /\ (req[r].status = "NotFound" /\ req'[r].status = "NotFound")
            => req'[r].pc = "done"
       /\ \A k \in DOMAIN cache' : cache'[k].value # NoBody]_vars

\* p1 was removed, and a read of p1 has failed since: nothing is cached
C33_Witness ==
  /\ "p1" \notin DOMAIN products
  /\ ~overlapped
  /\ cache = [k \in {} |-> Entry(NoBody, 0)]
  /\ \E r \in Reqs :
       /\ req[r].op = "findOne"
       /\ req[r].id = "p1"
       /\ req[r].pc = "done"
       /\ req[r].status = "NotFound"

\* C34: the TTL of a counter that exists is changed only by the expire of a
\* request whose increment returned 1; expire is reached with a result of 1
\* only; a counter is created without a TTL, and an increment of a counter
\* that exists leaves its TTL as it is
C34_TtlSetOnFirstIncrementOnly ==
  [][/\ \A k \in DOMAIN cache \cap DOMAIN cache' :
          cache'[k].ttl # cache[k].ttl
            => \E r \in Reqs :
                 /\ req[r].pc = "thr_expire"
                 /\ req'[r].pc = "thr_ttl"
                 /\ req[r].body.totalHits = 1
                 /\ ThrottleKey(req[r].id) = k
                 /\ cache'[k].ttl = THROTTLE_TTL
     /\ \A k \in DOMAIN cache' \ DOMAIN cache : cache'[k].ttl = 0 /\ cache'[k].value = 1
     /\ \A r \in Reqs :
          (req'[r].pc = "thr_expire" /\ req[r].pc # "thr_expire")
            => (req[r].pc = "thr_incr" /\ req'[r].body.totalHits = 1)]_vars

\* a second hit of a window: the count is 2 and the TTL is the one the first
\* hit set
C34_Witness ==
  \E r \in Reqs :
    /\ req[r].op = "throttle"
    /\ req[r].pc = "done"
    /\ req[r].body = [totalHits |-> 2, timeToExpire |-> THROTTLE_TTL * Milliseconds]
    /\ ThrottleKey(req[r].id) \in DOMAIN cache
    /\ cache[ThrottleKey(req[r].id)] = Entry(2, THROTTLE_TTL)

\* C35: a counter without a TTL is a counter whose first increment is about
\* to set it
C35_EveryCounterExpires ==
  \A k \in DOMAIN cache :
    cache[k].ttl = 0 =>
      \E r \in Reqs : req[r].pc = "thr_expire" /\ ThrottleKey(req[r].id) = k

\* C36: a call that took the fallback because the client was closed, and a
\* call whose RedisService.increment returned null, return totalHits 1 and
\* timeToExpire ttl * 1000
C36_UnavailableStoreReportsOneHit ==
  [][\A r \in Reqs :
       (/\ req[r].op = "throttle"
        /\ req'[r].pc = "done"
        /\ \/ req[r].pc = "thr_incr"
           \/ req[r].pc = "thr_ttl" /\ req[r].body.totalHits = 0)
         => req'[r].body = Fallback]_vars

\* C37: in every state the quantity of every cart line is at most the
\* stock of its product
C37_StockCeilingIsInvariant ==
  \A l \in DOMAIN cartItems :
    cartItems[l].product_id \in DOMAIN products
      => cartItems[l].quantity <= products[cartItems[l].product_id].stock_quantity * QScale

CartOperations == {"addToCart", "removeFromCart", "clearCart", "getCart"}

\* C38: a step of addToCart, removeFromCart, clearCart or getCart leaves
\* every product record as it is, and a step of an addToCart leaves the
\* lines of every other product as they are
C38_CartLeavesProductsAlone ==
  [][\A r \in Reqs :
       (req'[r].op \in CartOperations /\ req'[r].pc # req[r].pc) =>
         /\ products' = products
         /\ req'[r].op = "addToCart" =>
              \A l \in DOMAIN cartItems :
                cartItems[l].product_id # req'[r].id
                  => (l \in DOMAIN cartItems' /\ cartItems'[l] = cartItems[l])]_vars

\* after three requests the cart holds lines of p1 and of p2, and the stock
\* of both products is what it was at the start
C38_Witness ==
  /\ products["p1"].stock_quantity = 3
  /\ products["p2"].stock_quantity = 1
  /\ LinesOf(cartItems, "p1") # {}
  /\ LinesOf(cartItems, "p2") # {}
  /\ started = MaxStockRequests
  /\ \E r \in Reqs :
       /\ req[r].op = "addToCart"
       /\ req[r].pc = "done"
       /\ req[r].status = "ok"

====
